---- MODULE Spec2Model ----
(***************************************************************************)
(* Model of the AWRCompare comparison engine                               *)
(* (src/src/comparison/comparison_engine.py) over the report models that   *)
(* the parsers of src/src/parsers produce.                                 *)
(*                                                                         *)
(* Numbers are exact rationals n/d.  Python computes on doubles; on the    *)
(* cell values used below every quotient that decides a threshold          *)
(* comparison is the same in double arithmetic as in exact arithmetic.     *)
(***************************************************************************)
EXTENDS Integers, Sequences, FiniteSets, TLC

VARIABLES base_parser, target_parser, config, selected_tables, result

vars == <<base_parser, target_parser, config, selected_tables, result>>

(***************************************************************************)
(* Cell values: what BaseReportParser._normalize_value returns (None, int, *)
(* float, or the trimmed text) and what the engine computes (floats).      *)
(* Every value is a record of the same shape; k is the Python type.  A     *)
(* float is n/d * 1024^x: x is 0 but for the products of the unit suffixes *)
(* of _normalize_value, which exceed the integers TLC computes with.       *)
(***************************************************************************)
RECURSIVE Gcd(_, _)
Gcd(a, b) == IF b = 0 THEN a ELSE Gcd(b, a % b)

Abs(x) == IF x < 0 THEN -x ELSE x

None == [k |-> "none", n |-> 0, d |-> 1, s |-> "", x |-> 0]

IntV(i) == [k |-> "int", n |-> i, d |-> 1, s |-> "", x |-> 0]

StrV(t) == [k |-> "str", n |-> 0, d |-> 1, s |-> t, x |-> 0]

\* A float with the value num/den (den # 0), in lowest terms.
FloatV(num, den) ==
    LET g == Gcd(Abs(num), Abs(den))
        sg == IF den < 0 THEN -1 ELSE 1
    IN  [k |-> "float", n |-> sg * (num \div g), d |-> Abs(den) \div g, s |-> "",
         x |-> 0]

\* The float value * 1024^power, for a float value with x = 0: the product
\* float(...) * multiplier of _normalize_value.
ScaledV(value, power) == [value EXCEPT !.x = power]

IsNumber(v) == v.k \in {"int", "float"}

\* Texts of the model that Python's float() parses, with their values.
\* _normalize_value leaves each of them a text: int("1e3") raises ValueError
\* and the text has no '.', '%' or unit suffix.
FloatText == ("1e3" :> 1000) @@ ("0e0" :> 0)

\* float(value) succeeds (no ValueError, no TypeError).
CanFloat(v) == IsNumber(v) \/ (v.k = "str" /\ v.s \in DOMAIN FloatText)

\* float(value), for a value with CanFloat.
ToFloat(v) ==
    IF v.k = "str" THEN FloatV(FloatText[v.s], 1)
    ELSE FloatV(v.n * 1024 ^ v.x, v.d)

FSub(a, b) == FloatV(a.n * b.d - b.n * a.d, a.d * b.d)

FAdd(a, b) == FloatV(a.n * b.d + b.n * a.d, a.d * b.d)

FDiv(a, b) == FloatV(a.n * b.d, a.d * b.n)

FMulInt(a, i) == FloatV(a.n * i, a.d)

FAbs(a) == FloatV(Abs(a.n), a.d)

\* a >= i for a float a and an integer threshold i.
FGeqInt(a, i) == a.n >= i * a.d

\* a > i.
FGtInt(a, i) == a.n > i * a.d

\* str(value): the text of a str, "None" for None, the decimal digits of an
\* int, and the repr of a float (here: floats with denominator 1 or 2).
Str(v) ==
    CASE v.k = "str" -> v.s
      [] v.k = "none" -> "None"
      [] v.k = "int" -> ToString(v.n)
      [] v.k = "float" /\ v.d = 1 -> ToString(v.n * 1024 ^ v.x) \o ".0"
      [] v.k = "float" /\ v.d = 2 /\ v.n >= 0 -> ToString(v.n \div 2) \o ".5"
      [] OTHER -> ToString(v.n) \o "/" \o ToString(v.d)

(***************************************************************************)
(* Python dicts with string keys.  A row is an insertion-ordered sequence  *)
(* of <<key, value>> pairs with distinct keys (its order decides the row   *)
(* key); every other dict is the set of its <<key, value>> pairs.  An      *)
(* Optional is a sequence of length at most 1 (<<>> is Python's None).     *)
(***************************************************************************)
RowHas(row, key) == \E i \in 1..Len(row) : row[i][1] = key

\* row.get(key): the value, or None for a missing key.
RowGet(row, key) ==
    IF RowHas(row, key)
    THEN row[CHOOSE i \in 1..Len(row) : row[i][1] = key][2]
    ELSE None

DictKeys(dict) == {p[1] : p \in dict}

\* dict.get(key, default).
DictGet(dict, key, default) ==
    IF key \in DictKeys(dict)
    THEN (CHOOSE p \in dict : p[1] = key)[2]
    ELSE default

DefaultWarningPercent == 15

DefaultCriticalPercent == 30

(***************************************************************************)
(* ComparisonEngine: one metric.                                           *)
(***************************************************************************)
ComparisonResult(metric_name, base_value, target_value, absolute_change, percent_change, is_warning, is_critical) ==
    [metric_name |-> metric_name, base_value |-> base_value,
     target_value |-> target_value, absolute_change |-> absolute_change,
     percent_change |-> percent_change, is_warning |-> is_warning,
     is_critical |-> is_critical]

\* Mutant of PercentChange: a zero baseline with a changed target counts
\* as a change of 100 percent.
PercentChangeZeroIsHundred(absolute_change, base_num) ==
    IF base_num.n # 0
    THEN FMulInt(FDiv(absolute_change, FAbs(base_num)), 100)
    ELSE IF absolute_change.n # 0 THEN FloatV(100, 1) ELSE None

\* Mutant of PercentChange: divides by base_num, not by abs(base_num).
PercentChangeSigned(absolute_change, base_num) ==
    IF base_num.n # 0
    THEN FMulInt(FDiv(absolute_change, base_num), 100)
    ELSE None

\* percent_change of _compare_values: None for a zero baseline.
PercentChange(absolute_change, base_num) ==
    IF base_num.n # 0
    THEN FMulInt(FDiv(absolute_change, FAbs(base_num)), 100)
    ELSE None

\* Mutant of IsCritical: > in place of >=.
IsCriticalStrict(percent_change, thresholds) ==
    /\ percent_change # None
    /\ FGtInt(FAbs(percent_change),
              DictGet(thresholds, "critical_percent", DefaultCriticalPercent))

\* is_critical of _compare_values.
IsCritical(percent_change, thresholds) ==
    /\ percent_change # None
    /\ FGeqInt(FAbs(percent_change),
               DictGet(thresholds, "critical_percent", DefaultCriticalPercent))

\* is_warning of _compare_values: the elif branch.
IsWarning(percent_change, thresholds) ==
    /\ percent_change # None
    /\ ~FGeqInt(FAbs(percent_change),
                DictGet(thresholds, "critical_percent", DefaultCriticalPercent))
    /\ FGeqInt(FAbs(percent_change),
               DictGet(thresholds, "warning_percent", DefaultWarningPercent))

\* Mutant of _compare_values: a pair that cannot be coerced is recorded
\* without its values.
_compare_values_drops_values(metric_name, base_value, target_value, thresholds) ==
    IF ~(CanFloat(base_value) /\ CanFloat(target_value))
    THEN ComparisonResult(metric_name, None, None, None, None, FALSE, FALSE)
    ELSE
      LET base_num == ToFloat(base_value)
          target_num == ToFloat(target_value)
          absolute_change == FSub(target_num, base_num)
          percent_change == PercentChange(absolute_change, base_num)
      IN  ComparisonResult(metric_name, base_value, target_value,
                           absolute_change, percent_change,
                           IsWarning(percent_change, thresholds),
                           IsCritical(percent_change, thresholds))

_compare_values(metric_name, base_value, target_value, thresholds) ==
    IF ~(CanFloat(base_value) /\ CanFloat(target_value))
    THEN ComparisonResult(metric_name, base_value, target_value,
                          None, None, FALSE, FALSE)
    ELSE
      LET base_num == ToFloat(base_value)
          target_num == ToFloat(target_value)
          absolute_change == FSub(target_num, base_num)
          percent_change == PercentChange(absolute_change, base_num)
      IN  ComparisonResult(metric_name, base_value, target_value,
                           absolute_change, percent_change,
                           IsWarning(percent_change, thresholds),
                           IsCritical(percent_change, thresholds))

\* Mutant of _get_row_key: the last value of the row, not the first.
_get_row_key_last(row) == IF Len(row) = 0 THEN "" ELSE Str(row[Len(row)][2])

\* The first value of the row dict, stringified ("" for an empty row).
_get_row_key(row) == IF Len(row) = 0 THEN "" ELSE Str(row[1][2])

text_columns == {"Metric", "Event", "SQL ID", "Query ID", "Name", "Description"}

\* Mutant of _is_numeric_column: the configured ignored_columns are not
\* looked at.
_is_numeric_column_fixed_list_only(column_name) ==
    column_name \notin text_columns

_is_numeric_column(column_name) ==
    IF column_name \in config.ignored_columns
    THEN FALSE
    ELSE column_name \notin text_columns

(***************************************************************************)
(* Same-platform comparison: rows aligned by key.                          *)
(***************************************************************************)
\* target_index.get(row_key) of the dict comprehension over target rows: a
\* later row with the same key replaces an earlier one; <<>> stands for the
\* None of a missing key (both are falsy in `if target_row:`).
TargetIndexGet(target_rows, row_key) ==
    LET hits == {i \in 1..Len(target_rows) : _get_row_key(target_rows[i]) = row_key}
    IN  IF hits = {} THEN <<>>
        ELSE target_rows[CHOOSE i \in hits : \A j \in hits : j <= i]

\* Mutant of the inner loop: the column classification is not consulted.
RECURSIVE CompareRowAllColumns(_, _, _, _, _)
CompareRowAllColumns(headers, base_row, target_row, thresholds, i) ==
    IF i > Len(headers) THEN <<>>
    ELSE
      LET header == headers[i]
          base_value == RowGet(base_row, header)
          target_value == RowGet(target_row, header)
          rest == CompareRowAllColumns(headers, base_row, target_row,
                                       thresholds, i + 1)
      IN  IF /\ RowHas(target_row, header)
             /\ base_value # None
             /\ target_value # None
          THEN <<_compare_values(header, base_value, target_value, thresholds)>>
               \o rest
          ELSE rest

\* The inner loop over base_table.headers for one aligned pair of rows,
\* from header position i on.
RECURSIVE CompareRow(_, _, _, _, _)
CompareRow(headers, base_row, target_row, thresholds, i) ==
    IF i > Len(headers) THEN <<>>
    ELSE
      LET header == headers[i]
          base_value == RowGet(base_row, header)
          target_value == RowGet(target_row, header)
          rest == CompareRow(headers, base_row, target_row, thresholds, i + 1)
      IN  IF /\ RowHas(target_row, header)
             /\ _is_numeric_column(header)
             /\ base_value # None
             /\ target_value # None
          THEN <<_compare_values(header, base_value, target_value, thresholds)>>
               \o rest
          ELSE rest

RECURSIVE CompareRowsFrom(_, _, _, _)
CompareRowsFrom(base_table, target_table, thresholds, r) ==
    IF r > Len(base_table.rows) THEN <<>>
    ELSE
      LET base_row == base_table.rows[r]
          target_row == TargetIndexGet(target_table.rows, _get_row_key(base_row))
          rest == CompareRowsFrom(base_table, target_table, thresholds, r + 1)
      IN  IF Len(target_row) > 0
          THEN CompareRow(base_table.headers, base_row, target_row, thresholds, 1)
               \o rest
          ELSE rest

_compare_same_platform(base_table, target_table, thresholds) ==
    CompareRowsFrom(base_table, target_table, thresholds, 1)

(***************************************************************************)
(* Cross-platform comparison: column means over the common headers.        *)
(***************************************************************************)
Range(seq) == {seq[i] : i \in 1..Len(seq)}

\* Mutant of ColumnValues: a null cell counts as the value 0.
ColumnValuesNullAsZero(rows, header) ==
    [i \in 1..Len(rows) |->
        IF RowGet(rows[i], header) = None THEN IntV(0)
        ELSE RowGet(rows[i], header)]

\* [row.get(header) for row in rows if row.get(header) is not None]
ColumnValues(rows, header) ==
    SelectSeq([i \in 1..Len(rows) |-> RowGet(rows[i], header)],
              LAMBDA v : v # None)

\* sum(values) raises TypeError as soon as a value is a str (int + str).
SumRaises(values) == \E i \in 1..Len(values) : values[i].k = "str"

RECURSIVE SumFrom(_, _)
SumFrom(values, i) ==
    IF i > Len(values) THEN FloatV(0, 1)
    ELSE FAdd(ToFloat(values[i]), SumFrom(values, i + 1))

\* sum(values) / len(values), for a non-empty list of numbers.
Average(values) == FDiv(SumFrom(values, 1), FloatV(Len(values), 1))

\* set(base_table.headers) & set(target_table.headers)
CommonHeaders(base_table, target_table) ==
    Range(base_table.headers) \cap Range(target_table.headers)

\* The orders in which Python may iterate over a set of strings (string
\* hashes are randomised per process): every arrangement of the set.
IterationOrders(S) ==
    {seq \in [1..Cardinality(S) -> S] : Range(seq) = S}

\* The loop over common_headers, iterated in the order `order`, from
\* position i on.  raised: sum() raised TypeError, which nothing catches.
RECURSIVE CrossFrom(_, _, _, _, _)
CrossFrom(base_table, target_table, thresholds, order, i) ==
    IF i > Len(order) THEN [raised |-> FALSE, comparisons |-> <<>>]
    ELSE
      LET header == order[i]
          base_values == ColumnValues(base_table.rows, header)
          target_values == ColumnValues(target_table.rows, header)
          rest == CrossFrom(base_table, target_table, thresholds, order, i + 1)
      IN  IF _is_numeric_column(header)
             /\ Len(base_values) > 0 /\ Len(target_values) > 0
          THEN IF SumRaises(base_values) \/ SumRaises(target_values)
               THEN [raised |-> TRUE, comparisons |-> <<>>]
               ELSE [raised |-> rest.raised,
                     comparisons |->
                         <<_compare_values(header, Average(base_values),
                                           Average(target_values), thresholds)>>
                         \o rest.comparisons]
          ELSE rest

_compare_cross_platform(base_table, target_table, thresholds, order) ==
    CrossFrom(base_table, target_table, thresholds, order, 1)

(***************************************************************************)
(* One table.                                                              *)
(***************************************************************************)
TableComparison(table_name, table_description, base_table, target_table, comparisons) ==
    [table_name |-> table_name, table_description |-> table_description,
     base_table |-> base_table, target_table |-> target_table,
     comparisons |-> comparisons]

get_table_description(table_name) ==
    DictGet(config.table_descriptions, table_name, table_name)

\* Mutant of _compare_tables: the `if not comparisons: return None` is
\* missing.
_compare_tables_keeps_empty(table_name, base_table, target_table, thresholds, comparison_type, order) ==
    LET cross == _compare_cross_platform(base_table, target_table,
                                         thresholds, order)
        comparisons ==
            IF comparison_type = "cross_platform"
            THEN cross.comparisons
            ELSE _compare_same_platform(base_table, target_table, thresholds)
    IN  IF comparison_type = "cross_platform" /\ cross.raised
        THEN [raised |-> TRUE, value |-> <<>>]
        ELSE [raised |-> FALSE,
              value |-> <<TableComparison(table_name,
                                          get_table_description(table_name),
                                          base_table, target_table,
                                          comparisons)>>]

\* value: <<>> for the None returned when no comparison was produced.
_compare_tables(table_name, base_table, target_table, thresholds, comparison_type, order) ==
    LET cross == _compare_cross_platform(base_table, target_table,
                                         thresholds, order)
        comparisons ==
            IF comparison_type = "cross_platform"
            THEN cross.comparisons
            ELSE _compare_same_platform(base_table, target_table, thresholds)
    IN  IF comparison_type = "cross_platform" /\ cross.raised
        THEN [raised |-> TRUE, value |-> <<>>]
        ELSE IF Len(comparisons) = 0
        THEN [raised |-> FALSE, value |-> <<>>]
        ELSE [raised |-> FALSE,
              value |-> <<TableComparison(table_name,
                                          get_table_description(table_name),
                                          base_table, target_table,
                                          comparisons)>>]

(***************************************************************************)
(* Summary.                                                                *)
(***************************************************************************)
\* sum(...) of a sequence of integers, from position i on.
RECURSIVE SumOver(_, _)
SumOver(seq, i) ==
    IF i > Len(seq) THEN 0 ELSE seq[i] + SumOver(seq, i + 1)

get_critical_count(tc) ==
    SumOver([i \in 1..Len(tc.comparisons) |->
                IF tc.comparisons[i].is_critical THEN 1 ELSE 0], 1)

get_warning_count(tc) ==
    SumOver([i \in 1..Len(tc.comparisons) |->
                IF tc.comparisons[i].is_warning /\ ~tc.comparisons[i].is_critical
                THEN 1 ELSE 0], 1)

TotalComparisons(table_comparisons) ==
    SumOver([i \in 1..Len(table_comparisons) |->
                Len(table_comparisons[i].comparisons)], 1)

TotalCritical(table_comparisons) ==
    SumOver([i \in 1..Len(table_comparisons) |->
                get_critical_count(table_comparisons[i])], 1)

TotalWarnings(table_comparisons) ==
    SumOver([i \in 1..Len(table_comparisons) |->
                get_warning_count(table_comparisons[i])], 1)

\* Mutant of _generate_summary: has_issues looks at the critical count only.
_generate_summary_critical_only(table_comparisons) ==
    LET total_comparisons == TotalComparisons(table_comparisons)
        total_critical == TotalCritical(table_comparisons)
        total_warnings == TotalWarnings(table_comparisons)
    IN  [total_tables |-> Len(table_comparisons),
         total_comparisons |-> total_comparisons,
         critical_count |-> total_critical,
         warning_count |-> total_warnings,
         has_issues |-> (total_critical > 0)]

_generate_summary(table_comparisons) ==
    LET total_comparisons == TotalComparisons(table_comparisons)
        total_critical == TotalCritical(table_comparisons)
        total_warnings == TotalWarnings(table_comparisons)
    IN  [total_tables |-> Len(table_comparisons),
         total_comparisons |-> total_comparisons,
         critical_count |-> total_critical,
         warning_count |-> total_warnings,
         has_issues |-> (total_critical > 0 \/ total_warnings > 0)]

(***************************************************************************)
(* compare_reports.                                                        *)
(***************************************************************************)
\* 'oracle' in report_type, over the tags the parsers set.
ContainsOracle(report_type) == report_type = "oracle_awr"

_determine_comparison_type(base_type, target_type) ==
    IF base_type = target_type
    THEN IF ContainsOracle(base_type) THEN "oracle_oracle"
         ELSE "postgres_postgres"
    ELSE "cross_platform"

\* ConfigLoader.get_thresholds: settings['thresholds'].get(name, {})
get_thresholds(name) == DictGet(config.thresholds, name, {})

\* Mutant of _get_thresholds: the same-platform thresholds for every mode.
_get_thresholds_same_only(comparison_type) == get_thresholds("same_platform")

_get_thresholds(comparison_type) ==
    IF comparison_type = "cross_platform"
    THEN get_thresholds("cross_platform")
    ELSE get_thresholds("same_platform")

get_available_tables(parser) == DictKeys(parser.tables)

\* BaseReportParser.get_table: an Optional TableData.
get_table(parser, table_name) ==
    IF table_name \in DictKeys(parser.tables)
    THEN <<DictGet(parser.tables, table_name, <<>>)>>
    ELSE <<>>

\* Mutant of _get_common_tables: the baseline's tables, not the intersection.
_get_common_tables_base_only(base, target, table_order) ==
    SelectSeq(table_order, LAMBDA t : t \in get_available_tables(base))

\* list(base_tables & target_tables): the intersection, in the order
\* `table_order` in which the set happens to be iterated.
_get_common_tables(base, target, table_order) ==
    LET base_tables == get_available_tables(base)
        target_tables == get_available_tables(target)
    IN  SelectSeq(table_order, LAMBDA t : t \in base_tables \cap target_tables)

\* `if base_table and target_table`: an Optional TableData is truthy when
\* it is not None and, by TableData.__len__, has at least one row.
Truthy(opt_table) == Len(opt_table) = 1 /\ Len(opt_table[1].rows) > 0

\* Mutant of the loop over selected_tables: a table that one of the reports
\* does not hold is looked up with tables[table_name] and raises KeyError.
RECURSIVE CompareSelectedKeyError(_, _, _, _, _, _, _)
CompareSelectedKeyError(base, target, selected, thresholds, comparison_type, header_order, i) ==
    IF i > Len(selected) THEN [raised |-> FALSE, table_comparisons |-> <<>>]
    ELSE
      LET table_name == selected[i]
          base_table == get_table(base, table_name)
          target_table == get_table(target, table_name)
          comparison == _compare_tables(table_name, base_table[1],
                                        target_table[1], thresholds,
                                        comparison_type,
                                        header_order[table_name])
          rest == CompareSelectedKeyError(base, target, selected, thresholds,
                                          comparison_type, header_order, i + 1)
      IN  IF Len(base_table) = 0 \/ Len(target_table) = 0
          THEN [raised |-> TRUE, table_comparisons |-> <<>>]
          ELSE IF comparison.raised
               THEN [raised |-> TRUE, table_comparisons |-> <<>>]
               ELSE [raised |-> rest.raised,
                     table_comparisons |->
                         comparison.value \o rest.table_comparisons]

\* The loop over selected_tables from position i on; header_order[t] is
\* the iteration order of table t's common header set.
RECURSIVE CompareSelectedFrom(_, _, _, _, _, _, _)
CompareSelectedFrom(base, target, selected, thresholds, comparison_type, header_order, i) ==
    IF i > Len(selected) THEN [raised |-> FALSE, table_comparisons |-> <<>>]
    ELSE
      LET table_name == selected[i]
          base_table == get_table(base, table_name)
          target_table == get_table(target, table_name)
          comparison == _compare_tables(table_name, base_table[1],
                                        target_table[1], thresholds,
                                        comparison_type,
                                        header_order[table_name])
          rest == CompareSelectedFrom(base, target, selected, thresholds,
                                      comparison_type, header_order, i + 1)
      IN  IF Truthy(base_table) /\ Truthy(target_table)
          THEN IF comparison.raised
               THEN [raised |-> TRUE, table_comparisons |-> <<>>]
               ELSE [raised |-> rest.raised,
                     table_comparisons |->
                         comparison.value \o rest.table_comparisons]
          ELSE rest

NoneSelected == [is_none |-> TRUE, list |-> <<>>]

Selected(list) == [is_none |-> FALSE, list |-> list]

\* selected: NoneSelected for the default argument None, or Selected(list).
\* status "raised": an exception left compare_reports, no result exists.
compare_reports(base, target, selected, table_order, header_order) ==
    LET comparison_type ==
            _determine_comparison_type(base.metadata.report_type,
                                       target.metadata.report_type)
        thresholds == _get_thresholds(comparison_type)
        selected_list ==
            IF selected.is_none
            THEN _get_common_tables(base, target, table_order)
            ELSE selected.list
        loop == CompareSelectedFrom(base, target, selected_list, thresholds,
                                    comparison_type, header_order, 1)
    IN  IF loop.raised
        THEN [status |-> "raised", considered |-> selected_list]
        ELSE [status |-> "returned",
              considered |-> selected_list,
              comparison_type |-> comparison_type,
              base_metadata |-> base.metadata,
              target_metadata |-> target.metadata,
              table_comparisons |-> loop.table_comparisons,
              thresholds |-> thresholds,
              summary |-> _generate_summary(loop.table_comparisons)]

(***************************************************************************)
(* The reports and configurations the model runs on.                       *)
(***************************************************************************)
Parser(report_type, tables) ==
    [metadata |-> [report_type |-> report_type], tables |-> tables]

TableData(name, headers, rows) ==
    [name |-> name, headers |-> headers, rows |-> rows]

\* Table identifiers: load_profile is in the catalog of the AWR parser
\* only, io_statistics and wait_events are in both catalogs.
TableIds == {"load_profile", "io_statistics", "wait_events"}

\* The identifiers that the calls of Spec request.
RequestIds == {"io_statistics", "wait_events"}

\* Longest selected_tables list of the model.
MaxSelected == 2

Selections ==
    {NoneSelected} \cup
    {Selected(list) : list \in UNION {[1..n -> RequestIds] : n \in 0..MaxSelected}}

Thresholds(warning, critical) ==
    {<<"warning_percent", warning>>, <<"critical_percent", critical>>}

Config(thresholds, ignored_columns) ==
    [thresholds |-> thresholds, ignored_columns |-> ignored_columns,
     table_descriptions |-> {<<"wait_events", "Wait events">>}]

ConfiguredBoth ==
    {<<"same_platform", Thresholds(15, 30)>>, <<"cross_platform", Thresholds(20, 50)>>}

\* Configurations: two threshold tables (the second has no cross-platform
\* entry) and an ignored column.
ConfigSet ==
    {Config(ConfiguredBoth, {}),
     Config({<<"same_platform", Thresholds(10, 25)>>}, {}),
     Config(ConfiguredBoth, {"Waits"})}

\* The engine tags of the baseline and of the target report.
ReportTypePairs ==
    {<<"oracle_awr", "oracle_awr">>,
     <<"postgresql_pg_profile", "postgresql_pg_profile">>,
     <<"oracle_awr", "postgresql_pg_profile">>}

\* A table of one row, as _parse_html_table builds it from a header row
\* (Metric, Per Second) and one data row.
SingleRow(name, value) ==
    TableData(name, <<"Metric", "Per Second">>,
              << <<<<"Metric", StrV("DB Time")>>, <<"Per Second", value>>>> >>)

LoadProfile(value) == SingleRow("load_profile", value)

IoStatistics(value) == SingleRow("io_statistics", value)

WaitRow(event, waits, time) ==
    <<<<"Event", StrV(event)>>, <<"Waits", IntV(waits)>>, <<"Time(s)", IntV(time)>>>>

WaitEventsBase ==
    TableData("wait_events", <<"Event", "Waits", "Time(s)">>,
              <<WaitRow("db file read", 100, 10), WaitRow("log file sync", 200, 30)>>)

WaitEventsTarget ==
    TableData("wait_events", <<"Event", "Waits", "Time(s)">>,
              <<WaitRow("db file read", 120, 10), WaitRow("latch free", 250, 40)>>)

\* The tables mappings of a parsed report: each table found or absent.
TablesOf(io_statistics, wait_events) ==
    {io \cup we :
        io \in {{}} \cup {{<<"io_statistics", t>>} : t \in io_statistics},
        we \in {{}} \cup {{<<"wait_events", t>>} : t \in wait_events}}

BaseTablesSet ==
    TablesOf({IoStatistics(IntV(1000)), IoStatistics(None)}, {WaitEventsBase})

TargetTablesSet ==
    TablesOf({IoStatistics(IntV(1300)), IoStatistics(StrV("N/A"))},
             {WaitEventsTarget})

NoResult == [status |-> "none"]

(***************************************************************************)
(* The state machine: two parsed reports and a configuration are given;    *)
(* the only operation is a call of compare_reports.                        *)
(***************************************************************************)
Init ==
    /\ \E types \in ReportTypePairs :
        /\ \E tables \in BaseTablesSet : base_parser = Parser(types[1], tables)
        /\ \E tables \in TargetTablesSet : target_parser = Parser(types[2], tables)
    /\ config \in ConfigSet
    /\ selected_tables = NoneSelected
    /\ result = NoResult

\* The orders in which this call may iterate over a set of table names
\* (only selected_tables = None builds one) and over the common header set
\* of table t (only a cross-platform comparison of two tables that both
\* reports hold builds one).
TableOrders(selected) ==
    IF selected.is_none
    THEN IterationOrders(get_available_tables(base_parser)
                             \cup get_available_tables(target_parser))
    ELSE {<<>>}

HeaderOrders(t) ==
    IF /\ base_parser.metadata.report_type # target_parser.metadata.report_type
       /\ t \in get_available_tables(base_parser) \cap get_available_tables(target_parser)
    THEN IterationOrders(CommonHeaders(get_table(base_parser, t)[1],
                                       get_table(target_parser, t)[1]))
    ELSE {<<>>}

CompareReports(selected) ==
    /\ \E table_order \in TableOrders(selected),
          lp_order \in HeaderOrders("load_profile"),
          io_order \in HeaderOrders("io_statistics"),
          we_order \in HeaderOrders("wait_events") :
           LET header_order ==
                   [t \in TableIds |->
                       CASE t = "load_profile" -> lp_order
                         [] t = "io_statistics" -> io_order
                         [] OTHER -> we_order]
           IN  result' = compare_reports(base_parser, target_parser, selected,
                                         table_order, header_order)
    /\ selected_tables' = selected
    /\ UNCHANGED <<base_parser, target_parser, config>>

Next == \E selected \in Selections : CompareReports(selected)

Spec == Init /\ [][Next]_vars

(***************************************************************************)
(* One metric of one row, over many cell values and thresholds.            *)
(***************************************************************************)
CellValues ==
    {None, IntV(0), IntV(1000), IntV(1100), IntV(1150), IntV(1299), IntV(1300),
     IntV(-500), FloatV(1, 2), StrV("N/A"), StrV("1e3"), StrV("0e0")}

ThresholdsSet ==
    {Thresholds(15, 30), Thresholds(30, 15), Thresholds(100, 200),
     {<<"warning_percent", 10>>}, {}}

\* The one table of a report pair: load_profile for two AWR reports,
\* io_statistics when a pg_profile report takes part.
TableOfTypes(types) ==
    IF types = <<"oracle_awr", "oracle_awr">> THEN "load_profile"
    ELSE "io_statistics"

InitValues ==
    /\ \E types \in ReportTypePairs, th \in ThresholdsSet :
        /\ \E value \in CellValues :
               base_parser = Parser(types[1],
                   {<<TableOfTypes(types), SingleRow(TableOfTypes(types), value)>>})
        /\ \E value \in CellValues :
               target_parser = Parser(types[2],
                   {<<TableOfTypes(types), SingleRow(TableOfTypes(types), value)>>})
        /\ config = Config({<<"same_platform", th>>, <<"cross_platform", th>>}, {})
    /\ selected_tables = NoneSelected
    /\ result = NoResult

NextDefault == CompareReports(NoneSelected)

SpecValues == InitValues /\ [][NextDefault]_vars

(***************************************************************************)
(* Two reports of the same engine with one table of up to MaxRows rows.    *)
(***************************************************************************)
\* Most rows of a table of the model.
MaxRows == 2

BaseKeys == {StrV("DB Time"), StrV("None"), IntV(1)}

TargetKeys == {StrV("DB Time"), None, FloatV(1, 1)}

\* Row dicts as _parse_html_table builds them under the header rows
\* "wide" (Metric, Per Second, Per Transaction), "short" (Metric, Per
\* Second) and "twice" (Metric, Per Second, Per Second: the second cell
\* replaces the first under the one key).
RowOf(layout, key, value, transaction) ==
    IF layout = "wide"
    THEN <<<<"Metric", key>>, <<"Per Second", value>>,
           <<"Per Transaction", transaction>>>>
    ELSE <<<<"Metric", key>>, <<"Per Second", value>>>>

HeadersOf(layout) ==
    CASE layout = "wide" -> <<"Metric", "Per Second", "Per Transaction">>
      [] layout = "short" -> <<"Metric", "Per Second">>
      [] layout = "twice" -> <<"Metric", "Per Second", "Per Second">>

TablesWith(name, layout, keys, values, transaction) ==
    LET rows == {RowOf(layout, k, v, transaction) : k \in keys, v \in values}
    IN  {TableData(name, HeadersOf(layout), rs) :
            rs \in UNION {[1..n -> rows] : n \in 1..MaxRows}}

\* The engine of the two reports, the baseline's and the target's header row.
Layouts ==
    {<<"oracle_awr", "wide", "short">>,
     <<"postgresql_pg_profile", "wide", "wide">>,
     <<"oracle_awr", "twice", "short">>}

InitSame ==
    /\ \E layout \in Layouts :
        LET name == TableOfTypes(<<layout[1], layout[1]>>)
        IN  /\ \E t \in TablesWith(name, layout[2], BaseKeys,
                                   {None, IntV(1000)}, IntV(5)) :
                   base_parser = Parser(layout[1], {<<name, t>>})
            /\ \E t \in TablesWith(name, layout[3], TargetKeys,
                                   {None, IntV(1300)}, IntV(7)) :
                   target_parser = Parser(layout[1], {<<name, t>>})
    /\ config = Config({<<"same_platform", Thresholds(15, 30)>>}, {})
    /\ selected_tables = NoneSelected
    /\ result = NoResult

SpecSame == InitSame /\ [][NextDefault]_vars

(***************************************************************************)
(* An AWR report against a pg_profile report, each with the table          *)
(* wait_events of up to MaxCrossRows rows.                                 *)
(***************************************************************************)
\* Most rows of a table of the cross-platform model.
MaxCrossRows == 3

\* A wait_events row as _parse_html_table builds it under the header row
\* (Event, Time, last): last is Waits or Count.
CrossRow(time, last, count) ==
    <<<<"Event", StrV("db file read")>>, <<"Time", time>>, <<last, count>>>>

CrossTables(times, last, count, max_rows) ==
    {TableData("wait_events", <<"Event", "Time", last>>,
               [i \in 1..Len(ts) |-> CrossRow(ts[i], last, count)]) :
        ts \in UNION {[1..n -> times] : n \in 1..max_rows}}

InitCross ==
    /\ \E t \in CrossTables({None, IntV(100), IntV(200), IntV(300), StrV("N/A")},
                            "Waits", IntV(10), MaxCrossRows) :
           base_parser = Parser("oracle_awr", {<<"wait_events", t>>})
    /\ \E last \in {"Waits", "Count"} :
       \E t \in CrossTables({None, IntV(180), IntV(220)}, last, IntV(20),
                            MaxCrossRows - 1) :
           target_parser = Parser("postgresql_pg_profile", {<<"wait_events", t>>})
    /\ config = Config({<<"same_platform", Thresholds(15, 30)>>,
                        <<"cross_platform", Thresholds(25, 60)>>}, {})
    /\ selected_tables = NoneSelected
    /\ result = NoResult

SpecCross == InitCross /\ [][NextDefault]_vars

(***************************************************************************)
(* BaseReportParser._normalize_value.  A Python str is the sequence of its *)
(* characters.  int() and float() are modelled on the characters of        *)
(* Characters: decimal digits, sign, '.', exponent, '_' between digits and *)
(* surrounding whitespace; a string with any other character is rejected   *)
(* (ValueError), as Python rejects it.                                     *)
(***************************************************************************)
Whitespace == {" "}

DigitValue ==
    ("0" :> 0) @@ ("1" :> 1) @@ ("2" :> 2) @@ ("3" :> 3) @@ ("4" :> 4) @@
    ("5" :> 5) @@ ("6" :> 6) @@ ("7" :> 7) @@ ("8" :> 8) @@ ("9" :> 9)

\* str.strip()
RECURSIVE LStrip(_)
LStrip(cs) ==
    IF cs # <<>> /\ Head(cs) \in Whitespace THEN LStrip(Tail(cs)) ELSE cs

RECURSIVE RStrip(_)
RStrip(cs) ==
    IF cs # <<>> /\ cs[Len(cs)] \in Whitespace
    THEN RStrip(SubSeq(cs, 1, Len(cs) - 1))
    ELSE cs

Strip(cs) == RStrip(LStrip(cs))

\* The first position of a character of set in cs, or 0.
FirstOf(cs, set) ==
    IF \E i \in 1..Len(cs) : cs[i] \in set
    THEN CHOOSE i \in 1..Len(cs) : cs[i] \in set /\ \A j \in 1..(i - 1) : cs[j] \notin set
    ELSE 0

\* Mutant of RemoveCommas: only the first comma is removed.
RemoveCommasFirstOnly(cs) ==
    LET i == FirstOf(cs, {","})
    IN  IF i = 0 THEN cs ELSE SubSeq(cs, 1, i - 1) \o SubSeq(cs, i + 1, Len(cs))

\* value.replace(',', '')
RemoveCommas(cs) == SelectSeq(cs, LAMBDA c : c # ",")

\* The Python str of a character sequence.
RECURSIVE Join(_)
Join(cs) == IF cs = <<>> THEN "" ELSE Head(cs) \o Join(Tail(cs))

\* value.endswith(c)
EndsWith(cs, c) == cs # <<>> /\ cs[Len(cs)] = c

\* value[:-1]
AllButLast(cs) == SubSeq(cs, 1, Len(cs) - 1)

\* A digit part as int() and float() accept it: digits, with single
\* underscores between digits.
DigitPart(cs) ==
    /\ cs # <<>>
    /\ \A i \in 1..Len(cs) : cs[i] \in DOMAIN DigitValue \cup {"_"}
    /\ cs[1] # "_" /\ cs[Len(cs)] # "_"
    /\ \A i \in 1..(Len(cs) - 1) : ~(cs[i] = "_" /\ cs[i + 1] = "_")

RECURSIVE DecimalValue(_)
DecimalValue(digits) ==
    IF digits = <<>> THEN 0
    ELSE DecimalValue(AllButLast(digits)) * 10 + DigitValue[digits[Len(digits)]]

\* The value of a digit part (0 for an empty one) and its number of digits.
PartValue(cs) == DecimalValue(SelectSeq(cs, LAMBDA c : c # "_"))

PartDigits(cs) == Len(SelectSeq(cs, LAMBDA c : c # "_"))

SignOf(cs) == IF cs # <<>> /\ cs[1] = "-" THEN -1 ELSE 1

Unsigned(cs) == IF cs # <<>> /\ cs[1] \in {"-", "+"} THEN Tail(cs) ELSE cs

\* int(text): <<n>>, or <<>> for ValueError.
ParseInt(text) ==
    LET t == Strip(text)
    IN  IF DigitPart(Unsigned(t)) THEN <<SignOf(t) * PartValue(Unsigned(t))>>
        ELSE <<>>

\* float(text): <<value>>, or <<>> for ValueError.  The text is
\* [sign] digits [. [digits]] [e [sign] digits] or [sign] . digits [...].
ParseFloat(text) ==
    LET t == Strip(text)
        body == Unsigned(t)
        e == FirstOf(body, {"e", "E"})
        mantissa == IF e = 0 THEN body ELSE SubSeq(body, 1, e - 1)
        exponent == IF e = 0 THEN <<>> ELSE SubSeq(body, e + 1, Len(body))
        dot == FirstOf(mantissa, {"."})
        whole == IF dot = 0 THEN mantissa ELSE SubSeq(mantissa, 1, dot - 1)
        fraction == IF dot = 0 THEN <<>> ELSE SubSeq(mantissa, dot + 1, Len(mantissa))
        well_formed ==
            /\ whole = <<>> \/ DigitPart(whole)
            /\ fraction = <<>> \/ DigitPart(fraction)
            /\ whole # <<>> \/ fraction # <<>>
            /\ e # 0 => DigitPart(Unsigned(exponent))
        power == SignOf(exponent) * PartValue(Unsigned(exponent))
        scale == 10 ^ PartDigits(fraction)
        num == SignOf(t) * (PartValue(whole) * scale + PartValue(fraction))
    IN  IF ~well_formed THEN <<>>
        ELSE IF power >= 0 THEN <<FloatV(num * 10 ^ power, scale)>>
        ELSE <<FloatV(num, scale * 10 ^ (-power))>>

\* multipliers = {'K': 1024, 'M': 1024**2, 'G': 1024**3, 'T': 1024**4}, as
\* the powers of 1024.
multipliers == ("K" :> 1) @@ ("M" :> 2) @@ ("G" :> 3) @@ ("T" :> 4)

\* Mutant of _normalize_value: a text is returned without its commas.
_normalize_value_text_without_commas(value) ==
    LET stripped == Strip(value)
        value_clean == RemoveCommas(stripped)
        number == IF "." \in Range(value_clean)
                  THEN ParseFloat(value_clean)
                  ELSE [i \in 1..Len(ParseInt(value_clean)) |->
                           IntV(ParseInt(value_clean)[i])]
        percent == IF EndsWith(stripped, "%")
                   THEN ParseFloat(RemoveCommas(AllButLast(stripped)))
                   ELSE <<>>
        unit == IF value_clean # <<>> /\ value_clean[Len(value_clean)] \in DOMAIN multipliers
                THEN ParseFloat(AllButLast(value_clean))
                ELSE <<>>
    IN  IF stripped = <<>> THEN None
        ELSE IF number # <<>> THEN number[1]
        ELSE IF percent # <<>> THEN percent[1]
        ELSE IF unit # <<>>
             THEN ScaledV(unit[1], multipliers[value_clean[Len(value_clean)]])
        ELSE StrV(Join(value_clean))

\* Mutant of _normalize_value: a percentage is returned as a fraction of 1.
_normalize_value_percent_as_fraction(value) ==
    LET stripped == Strip(value)
        value_clean == RemoveCommas(stripped)
        number == IF "." \in Range(value_clean)
                  THEN ParseFloat(value_clean)
                  ELSE [i \in 1..Len(ParseInt(value_clean)) |->
                           IntV(ParseInt(value_clean)[i])]
        percent == IF EndsWith(stripped, "%")
                   THEN ParseFloat(RemoveCommas(AllButLast(stripped)))
                   ELSE <<>>
        unit == IF value_clean # <<>> /\ value_clean[Len(value_clean)] \in DOMAIN multipliers
                THEN ParseFloat(AllButLast(value_clean))
                ELSE <<>>
    IN  IF stripped = <<>> THEN None
        ELSE IF number # <<>> THEN number[1]
        ELSE IF percent # <<>> THEN FDiv(percent[1], FloatV(100, 1))
        ELSE IF unit # <<>>
             THEN ScaledV(unit[1], multipliers[value_clean[Len(value_clean)]])
        ELSE StrV(Join(stripped))

\* number: the int or float of the string without commas; percent: the
\* float before a final '%'; unit: the float before a final K, M, G or T.
\* Each is <<>> when the rule does not apply or its conversion fails.
_normalize_value(value) ==
    LET stripped == Strip(value)
        value_clean == RemoveCommas(stripped)
        number == IF "." \in Range(value_clean)
                  THEN ParseFloat(value_clean)
                  ELSE [i \in 1..Len(ParseInt(value_clean)) |->
                           IntV(ParseInt(value_clean)[i])]
        percent == IF EndsWith(stripped, "%")
                   THEN ParseFloat(RemoveCommas(AllButLast(stripped)))
                   ELSE <<>>
        unit == IF value_clean # <<>> /\ value_clean[Len(value_clean)] \in DOMAIN multipliers
                THEN ParseFloat(AllButLast(value_clean))
                ELSE <<>>
    IN  IF stripped = <<>> THEN None
        ELSE IF number # <<>> THEN number[1]
        ELSE IF percent # <<>> THEN percent[1]
        ELSE IF unit # <<>>
             THEN ScaledV(unit[1], multipliers[value_clean[Len(value_clean)]])
        ELSE StrV(Join(stripped))

\* The characters of the enumerated input strings and their greatest length.
Alphabet == {"0", "1", ".", ",", "%", "K", " ", "-", "+", "_"}

MaxLen == 4

\* Further input strings, with characters outside Alphabet.
ExampleStrings ==
    {<<"1", "2", ".", "5", "%">>, <<"2", "M">>, <<"1", "G">>, <<"2", "T">>,
     <<"1", ",", "2", "3", "4", ",", "5", "6", "7">>,
     <<"1", ",", "2", "3", "4", ".", "5", "K">>,
     <<"1", "e", "3">>, <<"1", ".", "5", "e", "3">>, <<"1", "e", "3", "%">>,
     <<"1", "_", "0", "0", "0">>, <<"+", "5">>, <<"2", "k">>,
     <<"N", "/", "A">>, <<" ", "D", "B", ",", " ", "C", "P", "U", " ">>,
     <<"M">>, <<"1", ".", "2", ".", "3">>, <<"5", "K", "%">>, <<"5", "%", "K">>}

InputStrings == UNION {[1..n -> Alphabet] : n \in 0..MaxLen} \cup ExampleStrings

InitNormalize ==
    /\ base_parser = Parser("oracle_awr", {})
    /\ target_parser = Parser("oracle_awr", {})
    /\ config = Config(ConfiguredBoth, {})
    /\ selected_tables = NoneSelected
    /\ result = NoResult

\* One call of _normalize_value; result keeps the argument and the value
\* returned.
NormalizeValue ==
    /\ result = NoResult
    /\ \E value \in InputStrings :
           result' = [status |-> "normalized", value |-> value,
                      returned |-> _normalize_value(value)]
    /\ UNCHANGED <<base_parser, target_parser, config, selected_tables>>

SpecNormalize == InitNormalize /\ [][NormalizeValue]_vars

(***************************************************************************)
(* _normalize_value on the decimal strings of non-negative integers with   *)
(* thousands separators.                                                   *)
(***************************************************************************)
\* The greatest of the consecutive integers tried.
MaxNumber == 1100

Numbers == 0..MaxNumber \cup {999999, 1000000, 1234567, 2147483647}

DigitChar(d) == CHOOSE c \in DOMAIN DigitValue : DigitValue[c] = d

\* The decimal string of n >= 0.
RECURSIVE DecimalString(_)
DecimalString(n) ==
    IF n < 10 THEN <<DigitChar(n)>>
    ELSE DecimalString(n \div 10) \o <<DigitChar(n % 10)>>

\* A digit string with a comma before every group of three digits counted
\* from the right.
RECURSIVE WithSeparators(_)
WithSeparators(digits) ==
    IF Len(digits) <= 3 THEN digits
    ELSE WithSeparators(SubSeq(digits, 1, Len(digits) - 3)) \o <<",">>
             \o SubSeq(digits, Len(digits) - 2, Len(digits))

\* One call of _normalize_value on the separated string of a number.
NormalizeThousands ==
    /\ result = NoResult
    /\ \E n \in Numbers :
           result' = [status |-> "normalized", number |-> n,
                      value |-> WithSeparators(DecimalString(n)),
                      returned |-> _normalize_value(WithSeparators(DecimalString(n)))]
    /\ UNCHANGED <<base_parser, target_parser, config, selected_tables>>

SpecThousands == InitNormalize /\ [][NormalizeThousands]_vars

(***************************************************************************)
(* The parsers (AWRParser, PgProfileParser).  A report file is either a    *)
(* markup document, the headings and tables of its tree in document        *)
(* order, or a plain text, the sequence of its lines (the text is the      *)
(* lines joined by newlines).  A heading is its tag and text, a table is   *)
(* its tr rows, a row is its th and td cells; tables are not nested.  The  *)
(* texts of cells and of lines are sequences of characters, as for         *)
(* _normalize_value.                                                        *)
(***************************************************************************)
\* The least element of a non-empty set of integers.
Least(S) == CHOOSE x \in S : \A y \in S : x <= y

Cell(tag, text) == [tag |-> tag, text |-> text]

Heading(tag, text) == [tag |-> tag, text |-> text]

TableNode(rows) == [tag |-> "table", rows |-> rows]

\* tr.find_all(tags): the cells of a row with one of the tags.
find_all(tr, tags) == SelectSeq(tr, LAMBDA cell : cell.tag \in tags)

\* re.search(pattern, text, re.IGNORECASE) and re.search(pattern, text) on
\* the patterns of the catalogs and the heading texts of the model: the
\* pairs that match.
IgnoreCaseMatches ==
    {<<"Load Profile", "Load Profile">>,
     <<"Load Profile", "LOAD PROFILE">>,
     <<"Top.*Wait Events", "Top 10 Foreground Wait Events">>,
     <<"Wait event.*statistics", "Wait event statistics">>}

CaseMatches == IgnoreCaseMatches \ {<<"Load Profile", "LOAD PROFILE">>}

re_search(pattern, text, ignorecase) ==
    <<pattern, text>> \in (IF ignorecase THEN IgnoreCaseMatches ELSE CaseMatches)

\* table_headers of _extract_table_html: table identifier -> pattern.
table_headers(class) ==
    IF class = "AWRParser"
    THEN {<<"load_profile", "Load Profile">>,
          <<"instance_efficiency", "Instance Efficiency">>,
          <<"top_sql_elapsed", "SQL ordered by Elapsed Time">>,
          <<"top_sql_cpu", "SQL ordered by CPU Time">>,
          <<"wait_events", "Top.*Wait Events">>,
          <<"io_statistics", "IOStat by">>,
          <<"time_model_statistics", "Time Model Statistics">>}
    ELSE {<<"general_statistics", "Cluster statistics">>,
          <<"wait_events", "Wait event.*statistics">>,
          <<"database_statistics", "Database statistics">>,
          <<"queries_statistics", "Top.*SQL.*by.*elapsed">>,
          <<"io_statistics", "I/O.*statistics">>,
          <<"table_statistics", "Top.*tables">>,
          <<"index_statistics", "Top.*indexes">>}

\* The tags that _extract_table_html searches for headings.
heading_tags(class) ==
    IF class = "AWRParser" THEN {"h2", "h3", "a"} ELSE {"h2", "h3", "h4", "a"}

\* An assignment that leaves a key already present as it is.
DictSetKeepsFirst(row, key, value) ==
    IF RowHas(row, key) THEN row ELSE Append(row, <<key, value>>)

\* row_data[key] = value: a key already present keeps its place.
DictSet(row, key, value) ==
    IF RowHas(row, key)
    THEN [i \in 1..Len(row) |-> IF row[i][1] = key THEN <<key, value>> ELSE row[i]]
    ELSE Append(row, <<key, value>>)

\* Mutant of RowData: a row is keyed by the texts of its own cells.
RECURSIVE RowDataKeyedByCell(_, _, _)
RowDataKeyedByCell(headers, cells, i) ==
    IF i = 0 THEN <<>>
    ELSE DictSet(RowDataKeyedByCell(headers, cells, i - 1), Join(Strip(cells[i].text)),
                 _normalize_value(Strip(cells[i].text)))

\* row_data of _parse_html_table after the first i cells of a row.
RECURSIVE RowData(_, _, _)
RowData(headers, cells, i) ==
    IF i = 0 THEN <<>>
    ELSE DictSet(RowData(headers, cells, i - 1), headers[i],
                 _normalize_value(Strip(cells[i].text)))

\* rows of _parse_html_table after the first i of the rows that follow the
\* header row: cells are the td cells of a row.
RECURSIVE DataRows(_, _, _)
DataRows(headers, trs, i) ==
    IF i = 0 THEN <<>>
    ELSE LET cells == find_all(trs[i], {"td"})
         IN  IF cells # <<>> /\ Len(cells) = Len(headers)
             THEN Append(DataRows(headers, trs, i - 1),
                         RowData(headers, cells, Len(cells)))
             ELSE DataRows(headers, trs, i - 1)

\* The headers of _parse_html_table: the trimmed texts of the th and td
\* cells of the first row.
HeaderTexts(table) ==
    IF table.rows = <<>> THEN <<>>
    ELSE LET header_cells == find_all(Head(table.rows), {"th", "td"})
         IN  [i \in 1..Len(header_cells) |-> Join(Strip(header_cells[i].text))]

_parse_html_table(table, table_name) ==
    LET headers == HeaderTexts(table)
        trs == IF table.rows = <<>> THEN <<>> ELSE Tail(table.rows)
    IN  TableData(table_name, headers, DataRows(headers, trs, Len(trs)))

\* A search that takes the last matching heading and the last table after it.
FindTableLast(class, soup, table_name) ==
    LET header_pattern == DictGet(table_headers(class), table_name, "")
        TableAfter(i) == {j \in i + 1..Len(soup) : soup[j].tag = "table"}
        found == {i \in 1..Len(soup) :
                     /\ soup[i].tag \in heading_tags(class)
                     /\ re_search(header_pattern, soup[i].text, TRUE)
                     /\ TableAfter(i) # {}}
    IN  IF header_pattern = "" \/ found = {} THEN <<>>
        ELSE <<soup[-Least({-j : j \in TableAfter(-Least({-i : i \in found}))})]>>

\* The table node that _extract_table_html takes for a table identifier:
\* an Optional, the first table after the first matching heading that has
\* a table after it.
find_table(class, soup, table_name) ==
    LET header_pattern == DictGet(table_headers(class), table_name, "")
        TableAfter(i) == {j \in i + 1..Len(soup) : soup[j].tag = "table"}
        found == {i \in 1..Len(soup) :
                     /\ soup[i].tag \in heading_tags(class)
                     /\ re_search(header_pattern, soup[i].text, TRUE)
                     /\ TableAfter(i) # {}}
    IN  IF header_pattern = "" \/ found = {} THEN <<>>
        ELSE <<soup[Least(TableAfter(Least(found)))]>>

\* _extract_table_html: an Optional TableData.
_extract_table_html(class, soup, table_name) ==
    LET table == find_table(class, soup, table_name)
    IN  IF table = <<>> THEN <<>>
        ELSE <<_parse_html_table(table[1], table_name)>>

\* line.split(): the words of a line.
RECURSIVE split(_)
split(cs) ==
    LET rest == LStrip(cs)
        n == FirstOf(rest, Whitespace)
    IN  IF rest = <<>> THEN <<>>
        ELSE IF n = 0 THEN <<rest>>
        ELSE <<SubSeq(rest, 1, n - 1)>> \o split(SubSeq(rest, n, Len(rest)))

\* line.split(sep, maxsplit); maxsplit is -1 for no limit.
RECURSIVE split_on(_, _, _)
split_on(cs, sep, maxsplit) ==
    LET n == FirstOf(cs, {sep})
    IN  IF n = 0 \/ maxsplit = 0 THEN <<cs>>
        ELSE <<SubSeq(cs, 1, n - 1)>>
                 \o split_on(SubSeq(cs, n + 1, Len(cs)), sep, maxsplit - 1)

\* ' '.join(parts)
RECURSIVE JoinWords(_)
JoinWords(parts) ==
    IF parts = <<>> THEN <<>>
    ELSE IF Len(parts) = 1 THEN parts[1]
    ELSE parts[1] \o <<" ">> \o JoinWords(Tail(parts))

\* re.search(pattern + r'\s*\n(.*?)(?:\n\n|\Z)', content, re.DOTALL):
\* an Optional, the lines of group 1.  The pattern must end a line that a
\* newline follows; \s* then takes the blank lines after it, and the group
\* runs to the line before the first empty line that a newline follows, or
\* to the end of the text.  The texts of the model hold one title line.
Section(lines, pattern, ignorecase) ==
    LET titles == {i \in 1..Len(lines) - 1 :
                      re_search(pattern, Join(Strip(lines[i])), ignorecase)}
        title == Least(titles)
        filled == {k \in title + 1..Len(lines) : Strip(lines[k]) # <<>>}
        start == IF filled = {} THEN Len(lines) ELSE Least(filled)
        breaks == {p \in start..Len(lines) - 2 : lines[p + 1] = <<>>}
        end == IF breaks = {} THEN Len(lines) ELSE Least(breaks)
    IN  IF titles = {} THEN <<>> ELSE <<SubSeq(lines, start, end)>>

\* The fields of the row that a text extractor appends for one line of its
\* section: an Optional sequence of <<key, text, normalized>>, the keys
\* those of the dict literal of the extractor, normalized telling whether
\* the text goes through _normalize_value.
LineFields(extractor, line) ==
    LET parts == split(line)
        n == Len(parts)
        colon == split_on(line, ":", -1)
        values == split(Strip(colon[2]))
        pair == split_on(line, ":", 1)
    IN  CASE extractor = "AWRParser._extract_load_profile_text" ->
                 IF ":" \in Range(line) /\ Len(values) >= 2
                 THEN <<(<< <<"Metric", Strip(colon[1]), FALSE>>,
                            <<"Per Second", values[1], TRUE>>,
                            <<"Per Transaction", values[2], TRUE>> >>)>>
                 ELSE <<>>
          [] extractor = "AWRParser._extract_top_sql_text" ->
                 IF n >= 4
                 THEN <<(<< <<"SQL ID", parts[1], FALSE>>,
                            <<"Elapsed Time", parts[2], TRUE>>,
                            <<"CPU Time", parts[3], TRUE>>,
                            <<"Executions", parts[4], TRUE>> >>)>>
                 ELSE <<>>
          [] extractor = "AWRParser._extract_wait_events_text" ->
                 IF n >= 4
                 THEN <<(<< <<"Event", JoinWords(SubSeq(parts, 1, n - 3)), FALSE>>,
                            <<"Waits", parts[n - 2], TRUE>>,
                            <<"Time(s)", parts[n - 1], TRUE>>,
                            <<"% DB Time", parts[n], TRUE>> >>)>>
                 ELSE <<>>
          [] extractor = "PgProfileParser._extract_general_statistics_text" ->
                 IF ":" \in Range(line)
                 THEN <<(<< <<"Metric", Strip(pair[1]), FALSE>>,
                            <<"Value", Strip(pair[2]), TRUE>> >>)>>
                 ELSE <<>>
          [] extractor = "PgProfileParser._extract_wait_events_text" ->
                 IF n >= 4
                 THEN <<(<< <<"Event", JoinWords(SubSeq(parts, 1, n - 3)), FALSE>>,
                            <<"Count", parts[n - 2], TRUE>>,
                            <<"Time (ms)", parts[n - 1], TRUE>>,
                            <<"% Total", parts[n], TRUE>> >>)>>
                 ELSE <<>>
          [] extractor = "PgProfileParser._extract_queries_text" ->
                 IF n >= 4
                 THEN <<(<< <<"Query ID", parts[1], FALSE>>,
                            <<"Calls", parts[2], TRUE>>,
                            <<"Total time", parts[3], TRUE>>,
                            <<"Mean time", parts[4], TRUE>> >>)>>
                 ELSE <<>>

\* The row that a text extractor appends for one line: an Optional.
LineRow(extractor, line) ==
    LET fields == LineFields(extractor, line)
    IN  IF fields = <<>> THEN <<>>
        ELSE <<[i \in 1..Len(fields[1]) |->
                   <<fields[1][i][1],
                     IF fields[1][i][3] THEN _normalize_value(fields[1][i][2])
                     ELSE StrV(Join(fields[1][i][2]))>>]>>

\* rows of a text extractor after the first i lines of its section.
RECURSIVE SectionRows(_, _, _)
SectionRows(extractor, section, i) ==
    IF i = 0 THEN <<>>
    ELSE SectionRows(extractor, section, i - 1) \o LineRow(extractor, section[i])

\* The title pattern, the case flag, the table name and the headers of each
\* text extractor.
TextExtractors ==
    {[class |-> "AWRParser", extractor |-> "AWRParser._extract_load_profile_text",
      pattern |-> "Load Profile", ignorecase |-> FALSE, name |-> "load_profile",
      headers |-> <<"Metric", "Per Second", "Per Transaction">>],
     [class |-> "AWRParser", extractor |-> "AWRParser._extract_top_sql_text",
      pattern |-> "SQL ordered by Elapsed Time", ignorecase |-> FALSE,
      name |-> "top_sql_elapsed",
      headers |-> <<"SQL ID", "Elapsed Time", "CPU Time", "Executions">>],
     [class |-> "AWRParser", extractor |-> "AWRParser._extract_wait_events_text",
      pattern |-> "Top.*Wait Events", ignorecase |-> FALSE, name |-> "wait_events",
      headers |-> <<"Event", "Waits", "Time(s)", "% DB Time">>],
     [class |-> "PgProfileParser", extractor |-> "PgProfileParser._extract_general_statistics_text",
      pattern |-> "Cluster statistics", ignorecase |-> FALSE,
      name |-> "general_statistics", headers |-> <<"Metric", "Value">>],
     [class |-> "PgProfileParser", extractor |-> "PgProfileParser._extract_wait_events_text",
      pattern |-> "Wait event.*statistics", ignorecase |-> TRUE,
      name |-> "wait_events",
      headers |-> <<"Event", "Count", "Time (ms)", "% Total">>],
     [class |-> "PgProfileParser", extractor |-> "PgProfileParser._extract_queries_text",
      pattern |-> "Top.*SQL.*by.*elapsed", ignorecase |-> TRUE,
      name |-> "queries_statistics",
      headers |-> <<"Query ID", "Calls", "Total time", "Mean time">>]}

\* One of the _extract_..._text functions on the lines of a text: an
\* Optional TableData, None when the section is not found.
ExtractText(extractor, content) ==
    LET e == CHOOSE x \in TextExtractors : x.extractor = extractor
        match == Section(content, e.pattern, e.ignorecase)
    IN  IF match = <<>> THEN <<>>
        ELSE <<TableData(e.name, e.headers,
                         SectionRows(extractor, match[1], Len(match[1])))>>

\* _extract_table_text of either parser.
_extract_table_text(class, content, table_name) ==
    LET named == {x \in TextExtractors :
                     /\ x.name = table_name
                     /\ x.class = class}
    IN  IF named = {} THEN <<>>
        ELSE ExtractText((CHOOSE x \in named : TRUE).extractor, content)

\* A parser object after construction (BaseReportParser.__init__,
\* AWRParser.__init__): file_path stands for the file at that path, a
\* record of markup (whether its text holds '<html' or '<table'), nodes
\* (its tree) and lines (its text).  None is <<>>.
ReportParser(class, file) ==
    [class |-> class, file_path |-> file, metadata |-> <<>>, tables |-> {},
     soup |-> <<>>, _raw_content |-> <<>>]

\* A report file: markup or plain text, its beginning as the detection of
\* the engine reads it, and what fails when the file is parsed: nothing,
\* open() ("read") or the construction of the tree ("soup").
MarkupFile(nodes) ==
    [markup |-> TRUE, nodes |-> nodes, lines |-> <<>>, head |-> <<>>,
     fails |-> "none"]

TextFile(lines) ==
    [markup |-> FALSE, nodes |-> <<>>, lines |-> lines, head |-> <<>>,
     fails |-> "none"]

\* extract_metadata: the report type of the class.
extract_metadata(parser) ==
    [report_type |-> IF parser.class = "AWRParser" THEN "oracle_awr"
                     ELSE "postgresql_pg_profile"]

\* extract_table: an Optional TableData.  Without a tree the text is
\* searched.
extract_table(parser, table_name) ==
    IF parser.soup # <<>>
    THEN _extract_table_html(parser.class, parser.soup[1], table_name)
    ELSE _extract_table_text(parser.class, parser._raw_content[1].lines, table_name)

\* self.tables[key] = value
DictPut(dict, key, value) == {p \in dict : p[1] # key} \cup {<<key, value>>}

\* table_names of _parse_html.
table_names(class) ==
    IF class = "AWRParser"
    THEN <<"load_profile", "instance_efficiency", "top_sql_elapsed", "top_sql_cpu",
           "wait_events", "io_statistics", "time_model_statistics">>
    ELSE <<"general_statistics", "wait_events", "database_statistics",
           "queries_statistics", "io_statistics", "table_statistics",
           "index_statistics">>

\* Mutant of StoreTable: every located table is stored.
StoreTableKeepsEmpty(tables, table_name, table_data) ==
    IF table_data # <<>>
    THEN DictPut(tables, table_name, table_data[1])
    ELSE tables

\* `if table_data and not table_data.is_empty(): self.tables[table_name] =
\* table_data`: a table is stored when it is found and not empty.
StoreTable(tables, table_name, table_data) ==
    IF Truthy(table_data) /\ table_data[1].rows # <<>>
    THEN DictPut(tables, table_name, table_data[1])
    ELSE tables

\* self.tables after the first i table names of the loop of _parse_html.
RECURSIVE ParseTablesFrom(_, _, _)
ParseTablesFrom(parser, names, i) ==
    IF i = 0 THEN parser.tables
    ELSE StoreTable(ParseTablesFrom(parser, names, i - 1), names[i],
                    extract_table(parser, names[i]))

_parse_html(parser) ==
    [parser EXCEPT !.metadata = <<extract_metadata(parser)>>,
                   !.tables = ParseTablesFrom(parser, table_names(parser.class),
                                              Len(table_names(parser.class)))]

\* The text extractors of a class in the order _parse_text calls them.
text_extractors(class) ==
    IF class = "AWRParser"
    THEN <<"AWRParser._extract_load_profile_text",
           "AWRParser._extract_top_sql_text",
           "AWRParser._extract_wait_events_text">>
    ELSE <<"PgProfileParser._extract_general_statistics_text",
           "PgProfileParser._extract_wait_events_text",
           "PgProfileParser._extract_queries_text">>

\* `if load_profile: self.tables['load_profile'] = load_profile`: the
\* truth value of an Optional TableData.
StoreSection(tables, table_data) ==
    IF Truthy(table_data)
    THEN DictPut(tables, table_data[1].name, table_data[1])
    ELSE tables

\* self.tables after the first i extractors of _parse_text.
RECURSIVE ParseTextFrom(_, _, _)
ParseTextFrom(parser, extractors, i) ==
    IF i = 0 THEN parser.tables
    ELSE StoreSection(ParseTextFrom(parser, extractors, i - 1),
                      ExtractText(extractors[i], parser._raw_content[1].lines))

_parse_text(parser) ==
    [parser EXCEPT !.metadata = <<extract_metadata(parser)>>,
                   !.tables = ParseTextFrom(parser, text_extractors(parser.class),
                                            Len(text_extractors(parser.class)))]

\* _read_file: the text is read once (open() does not raise).
_read_file(parser) ==
    IF parser._raw_content = <<>>
    THEN [parser EXCEPT !._raw_content = <<parser.file_path>>]
    ELSE parser

\* Whether _read_file raises: open() fails and no text was read before.
ReadRaises(parser) ==
    parser._raw_content = <<>> /\ parser.file_path.fails = "read"

\* Whether parse builds a tree and BeautifulSoup(content, 'lxml') raises.
SoupRaises(parser) ==
    /\ ~ReadRaises(parser)
    /\ _read_file(parser)._raw_content[1].markup
    /\ _read_file(parser)._raw_content[1].fails = "soup"

\* The value that parse() returns: False when an exception was caught.
ParseReturns(parser) == ~ReadRaises(parser) /\ ~SoupRaises(parser)

\* A parse that goes on with the old tree, or the text, when the
\* construction of the tree raises, and returns False afterwards.
ParseKeepsPartial(parser) ==
    IF ReadRaises(parser)
    THEN parser
    ELSE IF _read_file(parser)._raw_content[1].markup /\ ~SoupRaises(parser)
    THEN _parse_html([_read_file(parser) EXCEPT
                          !.soup = <<_read_file(parser)._raw_content[1].nodes>>])
    ELSE _parse_text(_read_file(parser))

\* parse: the parser after the call.  An exception of _read_file or of the
\* construction of the tree is caught before the metadata and the tables
\* are written.
parse(parser) ==
    IF ReadRaises(parser)
    THEN parser
    ELSE IF SoupRaises(parser)
    THEN _read_file(parser)
    ELSE IF _read_file(parser)._raw_content[1].markup
    THEN _parse_html([_read_file(parser) EXCEPT
                          !.soup = <<_read_file(parser)._raw_content[1].nodes>>])
    ELSE _parse_text(_read_file(parser))

(***************************************************************************)
(* The report files of the model.                                          *)
(***************************************************************************)
ParserClasses == {"AWRParser", "PgProfileParser"}

\* The greatest number of data rows of a table node and of lines after the
\* title line of a text.
MaxDataRows == 2

MaxLines == 3

Headings ==
    {Heading(tag, text) :
         tag \in {"h3", "h4", "p"},
         text \in {"Load Profile", "Top 10 Foreground Wait Events",
                   "Wait event statistics"}}
        \cup {Heading("h3", "LOAD PROFILE"), Heading("a", "Report Summary")}

HeaderRows ==
    {<<Cell("th", <<"E", "v", "e", "n", "t">>), Cell("th", <<"W", "a", "i", "t", "s">>)>>,
     <<Cell("td", <<" ", "E", "v", "e", "n", "t", " ">>), Cell("th", <<"W", "a", "i", "t", "s">>)>>,
     <<Cell("th", <<"W", "a", "i", "t", "s">>), Cell("th", <<"W", "a", "i", "t", "s">>)>>,
     <<>>}

DataRowSet ==
    {<<Cell("td", <<"d", "b", " ", "f", "i", "l", "e">>), Cell("td", <<"1", ",", "2", "3", "4">>)>>,
     <<Cell("th", <<"d", "b", " ", "f", "i", "l", "e">>), Cell("td", <<"5", "K">>)>>,
     <<Cell("th", <<"d", "b", " ", "f", "i", "l", "e">>), Cell("td", <<"7">>), Cell("td", <<"4", "0", "%">>)>>,
     <<Cell("td", <<"7">>)>>,
     <<>>}

TableNodes ==
    {TableNode(<<>>)} \cup
    {TableNode(<<header>> \o rows) :
         header \in HeaderRows,
         rows \in UNION {[1..n -> DataRowSet] : n \in 0..MaxDataRows}}

\* Two fixed tables for the files with more than one table.
FirstTable ==
    TableNode(<<<<Cell("th", <<"E", "v", "e", "n", "t">>)>>, <<Cell("td", <<"7">>)>>>>)

EmptyTable == TableNode(<<<<Cell("th", <<"E", "v", "e", "n", "t">>)>>>>)

MarkupFiles ==
    {MarkupFile(<<h, t>>) : h \in Headings, t \in TableNodes}
        \cup {MarkupFile(<<h>>) : h \in Headings}
        \cup {MarkupFile(<<t, h>>) : h \in Headings, t \in {FirstTable}}
        \cup {MarkupFile(<<h, t, FirstTable>>) : h \in Headings, t \in {EmptyTable}}
        \cup {MarkupFile(<<h, t, other, FirstTable>>) :
                  h \in Headings, other \in Headings, t \in {EmptyTable}}
        \cup {MarkupFile(<<h, other, t>>) :
                  h \in Headings, other \in Headings, t \in {FirstTable}}

TitleLines ==
    {<<"L", "o", "a", "d", " ", "P", "r", "o", "f", "i", "l", "e">>,
     <<"L", "O", "A", "D", " ", "P", "R", "O", "F", "I", "L", "E">>,
     <<"T", "o", "p", " ", "1", "0", " ", "F", "o", "r", "e", "g", "r", "o", "u", "n", "d", " ", "W", "a", "i", "t", " ", "E", "v", "e", "n", "t", "s">>,
     <<"W", "a", "i", "t", " ", "e", "v", "e", "n", "t", " ", "s", "t", "a", "t", "i", "s", "t", "i", "c", "s", " ", " ">>}

LineSet ==
    {<<"D", "B", " ", "T", "i", "m", "e", ":", " ", "1", ",", "2", "3", "4", " ", "5", ".", "5">>,
     <<"R", "e", "d", "o", " ", "s", "i", "z", "e", ":", " ", "1", "2">>,
     <<"d", "b", " ", "f", "i", "l", "e", " ", "r", "e", "a", "d", " ", "1", "0", " ", "2", ".", "5", " ", "4", "0", "%">>,
     <<" ">>, <<>>}

TextFiles ==
    {TextFile(<<title>>) : title \in TitleLines} \cup
    {TextFile(<<title>> \o lines) :
         title \in TitleLines,
         lines \in UNION {[1..n -> LineSet] : n \in 1..MaxLines}}

ReportFiles == MarkupFiles \cup TextFiles

\* The table identifiers that the calls of extract_table ask for.
RequestedTables == {"load_profile", "wait_events", "sql_statistics"}

InitParse ==
    /\ base_parser \in {ReportParser(class, file) :
                            class \in ParserClasses, file \in ReportFiles}
    /\ target_parser = Parser("oracle_awr", {})
    /\ config = Config(ConfiguredBoth, {})
    /\ selected_tables = NoneSelected
    /\ result = NoResult

\* parser.parse()
Parse ==
    /\ base_parser' = parse(base_parser)
    /\ result' = [status |-> "parsed", returned |-> ParseReturns(base_parser)]
    /\ UNCHANGED <<target_parser, config, selected_tables>>

\* parser.extract_table(table_name).  Before parse() there is neither a
\* tree nor a text: re.search(pattern, None) raises TypeError in the text
\* extractor of a known table identifier.  The text of a markup document
\* is not given as lines: there is no call on a markup document whose tree
\* was not built.
ExtractTable ==
    /\ ~(/\ base_parser.soup = <<>>
         /\ base_parser._raw_content # <<>>
         /\ base_parser._raw_content[1].markup)
    /\ \E table_name \in RequestedTables :
           result' =
               IF /\ base_parser.soup = <<>>
                  /\ base_parser._raw_content = <<>>
                  /\ \E x \in TextExtractors :
                         x.class = base_parser.class /\ x.name = table_name
               THEN [status |-> "raised", error |-> "TypeError",
                     table_name |-> table_name]
               ELSE IF base_parser.soup = <<>> /\ base_parser._raw_content = <<>>
               THEN [status |-> "extracted", table_name |-> table_name,
                     returned |-> <<>>]
               ELSE [status |-> "extracted", table_name |-> table_name,
                     returned |-> extract_table(base_parser, table_name)]
    /\ UNCHANGED <<base_parser, target_parser, config, selected_tables>>

NextParse == Parse \/ ExtractTable

SpecParse == InitParse /\ [][NextParse]_vars

\* Report files whose parsing fails, or does not, beside the same files
\* without a failure.
FailingFiles ==
    {[file EXCEPT !.fails = fails] :
         file \in {MarkupFile(<<h, FirstTable>>) : h \in Headings}
                      \cup {TextFile(<<title>>) : title \in TitleLines}
                      \cup {TextFile(<<title, line>>) :
                                title \in TitleLines, line \in LineSet},
         fails \in {"none", "read", "soup"}}

InitParseFailure ==
    /\ base_parser \in {ReportParser(class, file) :
                            class \in ParserClasses, file \in FailingFiles}
    /\ target_parser = Parser("oracle_awr", {})
    /\ config = Config(ConfiguredBoth, {})
    /\ selected_tables = NoneSelected
    /\ result = NoResult

SpecParseFailure == InitParseFailure /\ [][NextParse]_vars

(***************************************************************************)
(* Plain texts of an AWR report with a Load Profile section of one line.   *)
(***************************************************************************)
LoadProfileLines ==
    {<<"D", "B", " ", "T", "i", "m", "e", ":", " ", "1", ",", "2", "3", "4", " ", "5", ".", "5">>,
     <<"R", "e", "d", "o", " ", "s", "i", "z", "e", ":", " ", "1", "2">>,
     <<"R", "a", "t", "e", ":", " ", "1", "2", ":", "3", "0", " ", "5">>,
     <<"D", "B", " ", "T", "i", "m", "e", ":", " ", "1", " ", "2", ":", "3">>,
     <<"a", ":", "b", ":", " ", "1", " ", "2">>,
     <<"n", "o", " ", "c", "o", "l", "o", "n", " ", "1", " ", "2">>,
     <<":", " ", "1", " ", "2">>,
     <<"X", ":">>,
     <<"X", ":", "1", " ", "2", " ", "3">>,
     <<"T", "i", "m", "e", " ", "1", "2", ":", "3", "0", ":", " ", "4", " ", "5">>,
     <<"A", ":", ":", "1", " ", "2">>,
     <<"R", "e", "a", "d", "s", ":", " ", "1", "K", " ", "2", "M">>,
     <<"H", "i", "t", " ", "%", ":", " ", "9", "9", ".", "5", "%", " ", "0">>,
     <<" ", " ", "P", "a", "r", "s", "e", "s", " ", ":", " ", " ", "7", " ", " ", " ", "8", " ", " ">>,
     <<"U", ":", " ", "-", " ", "-">>,
     <<"S", "o", "r", "t", "s", ":", " ", "1">>}

InitLoadProfile ==
    /\ base_parser \in
           {ReportParser("AWRParser",
                         TextFile(<<<<"L", "o", "a", "d", " ", "P", "r", "o", "f", "i", "l", "e">>, line>>)) :
                line \in LoadProfileLines}
    /\ target_parser = Parser("oracle_awr", {})
    /\ config = Config(ConfiguredBoth, {})
    /\ selected_tables = NoneSelected
    /\ result = NoResult

SpecLoadProfile == InitLoadProfile /\ [][NextParse]_vars

(***************************************************************************)
(* Engine detection of the front ends.  The beginning of a report file is  *)
(* a sequence of segments: a word (a sequence of characters) or a run of   *)
(* filler characters "x", a character of no marker.                        *)
(***************************************************************************)
Word(cs) == [word |-> cs, fill |-> 0]

Fill(n) == [word |-> <<>>, fill |-> n]

SegmentLen(segment) == Len(segment.word) + segment.fill

\* f.read(size): the first size characters of the file.
ReadLimit == 5000

RECURSIVE ReadChars(_, _)
ReadChars(content, size) ==
    IF content = <<>> \/ size = 0
    THEN <<>>
    ELSE IF SegmentLen(Head(content)) <= size
    THEN <<Head(content)>>
             \o ReadChars(Tail(content), size - SegmentLen(Head(content)))
    ELSE IF Head(content).fill > 0
    THEN <<Fill(size)>>
    ELSE <<Word(SubSeq(Head(content).word, 1, size))>>

\* The characters of a text for a search of a marker: a run of fillers is
\* one filler, since no marker has a filler in it.
RECURSIVE Flat(_)
Flat(content) ==
    IF content = <<>>
    THEN <<>>
    ELSE (IF Head(content).fill > 0 THEN <<"x">> ELSE Head(content).word)
             \o Flat(Tail(content))

\* marker in text
Contains(text, marker) ==
    \E i \in 1..(Len(text) - Len(marker) + 1) :
        SubSeq(text, i, i + Len(marker) - 1) = marker

MarkerAWR == <<"A", "W", "R">>

MarkerRepository ==
    <<"A", "u", "t", "o", "m", "a", "t", "i", "c", " ", "W", "o", "r", "k", "l", "o", "a", "d", " ", "R", "e", "p", "o", "s", "i", "t", "o", "r", "y">>

MarkerPgProfile == <<"p", "g", "_", "p", "r", "o", "f", "i", "l", "e">>

MarkerPostgreSQL == <<"P", "o", "s", "t", "g", "r", "e", "S", "Q", "L">>

\* The choice of the parser class from the text that was read.
DetectFrom(content) ==
    IF Contains(content, MarkerAWR) \/ Contains(content, MarkerRepository)
    THEN "AWRParser"
    ELSE IF Contains(content, MarkerPgProfile) \/ Contains(content, MarkerPostgreSQL)
    THEN "PgProfileParser"
    ELSE "AWRParser"

\* get_parser_for_file of the web front end (the file can be opened).
get_parser_for_file(filepath) ==
    ReportParser(DetectFrom(Flat(ReadChars(filepath.head, ReadLimit))), filepath)

\* _create_parser of the desktop front end (the file can be opened).
\* A detector that asks for the markers of pg_profile first.
CreateParserPgFirst(file_path) ==
    ReportParser(IF \/ Contains(Flat(ReadChars(file_path.head, ReadLimit)), MarkerPgProfile)
                    \/ Contains(Flat(ReadChars(file_path.head, ReadLimit)), MarkerPostgreSQL)
                 THEN "PgProfileParser"
                 ELSE "AWRParser", file_path)

_create_parser(file_path) ==
    ReportParser(DetectFrom(Flat(ReadChars(file_path.head, ReadLimit))), file_path)

\* The greatest number of segments of the beginning of a file.
MaxSegments == 3

Segments ==
    {Word(MarkerAWR), Word(MarkerRepository), Word(MarkerPgProfile),
     Word(MarkerPostgreSQL), Word(<<"<", "h", "t", "m", "l", ">">>),
     Word(<<"A", "W">>), Word(<<"R">>), Word(<<"a", "w", "r">>),
     Fill(ReadLimit - 29), Fill(ReadLimit - 2), Fill(ReadLimit)}

MarkupMarker == <<"<", "h", "t", "m", "l">>

\* A file of which the beginning is given; it is markup when "<html" or
\* "<table" is in its text, in the beginning or after it.
HeadFile(head, markup) ==
    [markup |-> markup, nodes |-> <<>>, lines |-> <<>>, head |-> head,
     fails |-> "none"]

DetectFiles ==
    {HeadFile(head, markup) :
         head \in UNION {[1..n -> Segments] : n \in 0..MaxSegments},
         markup \in BOOLEAN}
        \ {HeadFile(head, FALSE) :
               head \in {h \in UNION {[1..n -> Segments] : n \in 0..MaxSegments} :
                             Contains(Flat(h), MarkupMarker)}}

InitDetect ==
    /\ base_parser = Parser("oracle_awr", {})
    /\ target_parser = Parser("oracle_awr", {})
    /\ config = Config(ConfiguredBoth, {})
    /\ selected_tables = NoneSelected
    /\ result \in {[status |-> "chosen", file |-> file] : file \in DetectFiles}

\* get_parser_for_file(filepath) of the web front end
GetParserForFile ==
    /\ result' = [status |-> "detected", by |-> "get_parser_for_file",
                  file |-> result.file,
                  parser |-> get_parser_for_file(result.file)]
    /\ UNCHANGED <<base_parser, target_parser, config, selected_tables>>

\* self._create_parser(file_path) of the desktop front end
CreateParser ==
    /\ result' = [status |-> "detected", by |-> "_create_parser",
                  file |-> result.file,
                  parser |-> _create_parser(result.file)]
    /\ UNCHANGED <<base_parser, target_parser, config, selected_tables>>

NextDetect == GetParserForFile \/ CreateParser

SpecDetect == InitDetect /\ [][NextDetect]_vars

(***************************************************************************)
(* The window of the desktop front end.  base_parser and target_parser are *)
(* Optional parsers (<<>> is None), selected_tables is the list box of the *)
(* table names, result is the outcome of the last handler together with    *)
(* self.comparison_results.                                                *)
(***************************************************************************)
ListBox(items, selection) == [items |-> items, selection |-> selection]

Window(status, invoked, comparison_results) ==
    [status |-> status, invoked |-> invoked,
     comparison_results |-> comparison_results]

\* sorted(names): the table names of both catalogs in alphabetical order.
SortedNames ==
    <<"database_statistics", "general_statistics", "index_statistics",
      "instance_efficiency", "io_statistics", "load_profile",
      "queries_statistics", "table_statistics", "time_model_statistics",
      "top_sql_cpu", "top_sql_elapsed", "wait_events">>

sorted(names) == SelectSeq(SortedNames, LAMBDA name : name \in names)

\* _populate_tables_list: the common tables in sorted order, the first
\* three selected.
_populate_tables_list(base, target) ==
    ListBox(sorted(get_available_tables(base) \cap get_available_tables(target)),
            {i \in 1..Cardinality(get_available_tables(base)
                                      \cap get_available_tables(target)) : i <= 3})

\* open() of the detection raises.
OpenRaises(file) == file.fails = "read"

\* The files of the two entries: Optional, <<>> is the empty entry.
BaseCreated(base_file, target_file) ==
    base_file # <<>> /\ target_file # <<>> /\ ~OpenRaises(base_file[1])

BaseParsed(base_file, target_file) ==
    BaseCreated(base_file, target_file) /\ ParseReturns(_create_parser(base_file[1]))

TargetCreated(base_file, target_file) ==
    BaseParsed(base_file, target_file) /\ ~OpenRaises(target_file[1])

TargetParsed(base_file, target_file) ==
    TargetCreated(base_file, target_file) /\ ParseReturns(_create_parser(target_file[1]))

\* The parser that an entry's file gives after _create_parser and parse():
\* Optional, <<>> when no parser was created.
CreatedAndParsed(file) ==
    IF file = <<>> \/ OpenRaises(file[1])
    THEN <<>>
    ELSE <<parse(_create_parser(file[1]))>>

\* The handler with the parsers that the two files give.
LoadedWindow(base_file, target_file, base, target) ==
    /\ base_parser' = IF BaseCreated(base_file, target_file)
                      THEN base ELSE base_parser
    /\ target_parser' = IF TargetCreated(base_file, target_file)
                        THEN target ELSE target_parser
    /\ selected_tables' = IF TargetParsed(base_file, target_file)
                          THEN _populate_tables_list(base[1], target[1])
                          ELSE selected_tables
    /\ result' = Window(IF TargetParsed(base_file, target_file)
                        THEN "loaded" ELSE "load_error",
                        FALSE, result.comparison_results)
    /\ UNCHANGED config

\* _load_reports: each parser is assigned before it parses; an exception
\* ends the handler with a message and leaves what was assigned so far.
_load_reports(base_file, target_file) ==
    LoadedWindow(base_file, target_file, CreatedAndParsed(base_file),
                 CreatedAndParsed(target_file))

\* The parser object as compare_reports reads it (metadata is not None).
EngineView(parser) == Parser(parser.metadata[1].report_type, parser.tables)

\* The orders in which a cross-platform comparison may iterate over the
\* common headers of table t.
WindowHeaderOrders(base, target, t) ==
    IF /\ base.metadata.report_type # target.metadata.report_type
       /\ t \in get_available_tables(base) \cap get_available_tables(target)
    THEN IterationOrders(CommonHeaders(get_table(base, t)[1], get_table(target, t)[1]))
    ELSE {<<>>}

\* selected_tables of _compare_reports: the selected items in list order.
SelectedItems(listbox) ==
    SelectSeq(listbox.items,
              LAMBDA name : \E i \in listbox.selection : listbox.items[i] = name)

\* The window after the call: self.comparison_results is assigned when the
\* call returns.
ComparedWindow(results) ==
    IF results.status = "returned"
    THEN Window("compared", TRUE, <<results>>)
    ELSE Window("compare_error", TRUE, result.comparison_results)

\* The call of compare_reports of _compare_reports: metadata.report_type of
\* a parser whose metadata is None raises AttributeError.
InvokeCompareReports ==
    IF base_parser[1].metadata = <<>> \/ target_parser[1].metadata = <<>>
    THEN result' = Window("compare_error", TRUE, result.comparison_results)
    ELSE \E lp_order \in WindowHeaderOrders(EngineView(base_parser[1]),
                                            EngineView(target_parser[1]), "load_profile"),
            we_order \in WindowHeaderOrders(EngineView(base_parser[1]),
                                            EngineView(target_parser[1]), "wait_events") :
             result' = ComparedWindow(
                 compare_reports(EngineView(base_parser[1]), EngineView(target_parser[1]),
                                 Selected(SelectedItems(selected_tables)), <<>>,
                                 [t \in TableIds |-> IF t = "load_profile" THEN lp_order
                                                     ELSE we_order]))

\* _compare_reports
_compare_reports ==
    /\ IF base_parser = <<>> \/ target_parser = <<>>
       THEN result' = Window("compare_error", FALSE, result.comparison_results)
       ELSE IF selected_tables.selection = {}
       THEN result' = Window("compare_error", FALSE, result.comparison_results)
       ELSE InvokeCompareReports
    /\ UNCHANGED <<base_parser, target_parser, config, selected_tables>>

\* _clear_all
_clear_all ==
    /\ base_parser' = <<>>
    /\ target_parser' = <<>>
    /\ selected_tables' = ListBox(<<>>, {})
    /\ result' = Window("ready", FALSE, <<>>)
    /\ UNCHANGED config

\* The report files that the user can choose.
AwrHead == <<Word(MarkerAWR)>>

PgHead == <<Word(MarkerPostgreSQL)>>

LoadProfileText ==
    TextFile(<<<<"L", "o", "a", "d", " ", "P", "r", "o", "f", "i", "l", "e">>,
               <<"D", "B", " ", "T", "i", "m", "e", ":", " ", "1", ",", "2", "3", "4", " ", "5", ".", "5">>>>)

WaitEventsText ==
    TextFile(<<<<"W", "a", "i", "t", " ", "e", "v", "e", "n", "t", " ", "s", "t", "a", "t", "i", "s", "t", "i", "c", "s", " ", " ">>,
               <<"d", "b", " ", "f", "i", "l", "e", " ", "r", "e", "a", "d", " ", "1", "0", " ", "2", ".", "5", " ", "4", "0", "%">>>>)

LoadProfileMarkup ==
    MarkupFile(<<Heading("h3", "Load Profile"), FirstTable>>)

WindowFiles ==
    {[LoadProfileText EXCEPT !.head = AwrHead],
     [LoadProfileText EXCEPT !.head = AwrHead, !.fails = "read"],
     [LoadProfileMarkup EXCEPT !.head = AwrHead],
     [LoadProfileMarkup EXCEPT !.head = AwrHead, !.fails = "soup"],
     [WaitEventsText EXCEPT !.head = PgHead],
     [TextFile(<<>>) EXCEPT !.head = <<>>]}

InitWindow ==
    /\ base_parser = <<>>
    /\ target_parser = <<>>
    /\ config = Config(ConfiguredBoth, {})
    /\ selected_tables = ListBox(<<>>, {})
    /\ result = Window("ready", FALSE, <<>>)

LoadReports ==
    \E base_file \in {<<>>} \cup {<<file>> : file \in WindowFiles},
       target_file \in {<<>>} \cup {<<file>> : file \in WindowFiles} :
        _load_reports(base_file, target_file)

NextWindow == LoadReports \/ _compare_reports \/ _clear_all

SpecWindow == InitWindow /\ [][NextWindow]_vars

(***************************************************************************)
(* The configuration loader.  In this specification config is the loader   *)
(* beside the settings file: file is what default_comparison.yaml holds    *)
(* now, _configs is the Optional cached settings (<<>> before the first    *)
(* load), and thresholds is what load_config returns now.                  *)
(***************************************************************************)
Loader(file, cached) ==
    [thresholds |-> IF cached = <<>> THEN file ELSE cached[1],
     ignored_columns |-> {},
     table_descriptions |-> {<<"wait_events", "Wait events">>},
     file |-> file, _configs |-> cached]

\* A loader that reads the file at every call.
LoadConfigEveryCall(loader) == Loader(loader.file, <<>>)

\* load_config: the loader after the call; the settings are read from the
\* file when none are cached, and cached.
load_config(loader) == Loader(loader.file, <<loader.thresholds>>)

\* The settings files: the thresholds of the two comparison types.
SettingsFiles ==
    {ConfiguredBoth,
     {<<"same_platform", Thresholds(40, 80)>>, <<"cross_platform", Thresholds(40, 80)>>},
     {<<"same_platform", Thresholds(10, 25)>>}}

InitConfig ==
    /\ \E types \in ReportTypePairs :
        /\ \E tables \in BaseTablesSet : base_parser = Parser(types[1], tables)
        /\ \E tables \in TargetTablesSet : target_parser = Parser(types[2], tables)
    /\ config \in {Loader(file, <<>>) : file \in SettingsFiles}
    /\ selected_tables = NoneSelected
    /\ result = NoResult

\* The settings file is edited.
EditSettings ==
    /\ \E file \in SettingsFiles \ {config.file} :
           config' = Loader(file, config._configs)
    /\ UNCHANGED <<base_parser, target_parser, selected_tables, result>>

\* A call that takes the compared tables out of the baseline report.
CompareReportsConsuming(selected) ==
    /\ \E table_order \in TableOrders(selected),
          lp_order \in HeaderOrders("load_profile"),
          io_order \in HeaderOrders("io_statistics"),
          we_order \in HeaderOrders("wait_events") :
           LET header_order ==
                   [t \in TableIds |->
                       CASE t = "load_profile" -> lp_order
                         [] t = "io_statistics" -> io_order
                         [] OTHER -> we_order]
           IN  result' = compare_reports(base_parser, target_parser, selected,
                                         table_order, header_order)
    /\ selected_tables' = selected
    /\ base_parser' = [base_parser EXCEPT
                           !.tables = {p \in @ : p[1] \notin Range(result'.considered)}]
    /\ config' = load_config(config)
    /\ UNCHANGED target_parser

\* A call of compare_reports, with the load of the settings it makes.
CompareReportsLoading(selected) ==
    /\ \E table_order \in TableOrders(selected),
          lp_order \in HeaderOrders("load_profile"),
          io_order \in HeaderOrders("io_statistics"),
          we_order \in HeaderOrders("wait_events") :
           LET header_order ==
                   [t \in TableIds |->
                       CASE t = "load_profile" -> lp_order
                         [] t = "io_statistics" -> io_order
                         [] OTHER -> we_order]
           IN  result' = compare_reports(base_parser, target_parser, selected,
                                         table_order, header_order)
    /\ selected_tables' = selected
    /\ config' = load_config(config)
    /\ UNCHANGED <<base_parser, target_parser>>

\* The selections of the calls.
LoaderSelections ==
    {NoneSelected, Selected(<<"io_statistics">>),
     Selected(<<"wait_events", "io_statistics">>)}

NextConfig ==
    EditSettings \/ \E selected \in LoaderSelections : CompareReportsLoading(selected)

SpecConfig == InitConfig /\ [][NextConfig]_vars

(***************************************************************************)
(* Properties of a call of compare_reports.                                *)
(***************************************************************************)
Returned == result.status = "returned"

Raised == result.status = "raised"

InBoth(t) ==
    t \in get_available_tables(base_parser) \cap get_available_tables(target_parser)

\* Some TableComparison of the result is for table t.
HasTableComparison(t) ==
    \E i \in 1..Len(result.table_comparisons) :
        result.table_comparisons[i].table_name = t

ModeOfCall ==
    _determine_comparison_type(base_parser.metadata.report_type,
                               target_parser.metadata.report_type)

\* The outcomes that comparing table t (held by both reports) produces;
\* their number does not depend on the order the headers are iterated in.
OutcomesOf(t) ==
    LET b == get_table(base_parser, t)[1]
        g == get_table(target_parser, t)[1]
        th == _get_thresholds(ModeOfCall)
    IN  IF ModeOfCall = "cross_platform"
        THEN LET order == CHOOSE o \in IterationOrders(CommonHeaders(b, g)) : TRUE
             IN  _compare_cross_platform(b, g, th, order).comparisons
        ELSE _compare_same_platform(b, g, th)

ProducedOutcomes(t) == InBoth(t) /\ Len(OutcomesOf(t)) > 0

\* C1: in every result of compare_reports, a requested table has a
\* TableComparison if and only if comparing it produced at least one
\* outcome, and no TableComparison has an empty comparisons list.
C1_TableDiffIffOutcomes ==
    Returned =>
        /\ \A i \in 1..Len(result.table_comparisons) :
               Len(result.table_comparisons[i].comparisons) > 0
        /\ \A t \in Range(result.considered) :
               HasTableComparison(t) <=> ProducedOutcomes(t)

\* C1 witness: a call returned in which one requested table, held by both
\* reports, produced no outcome and is absent, and another is present.
C1_Witness ==
    /\ Returned
    /\ \E t \in Range(result.considered) :
           InBoth(t) /\ ~ProducedOutcomes(t) /\ ~HasTableComparison(t)
    /\ \E t \in Range(result.considered) : HasTableComparison(t)

\* All <<i, j>> with outcome j of TableComparison i satisfying Test.
OutcomePositions(tcs, Test(_)) ==
    {ij \in UNION {{<<i, j>> : j \in 1..Len(tcs[i].comparisons)} : i \in 1..Len(tcs)} :
        Test(tcs[ij[1]].comparisons[ij[2]])}

\* C5: the summary counts the TableComparisons, their outcomes, the critical
\* outcomes and the warning-but-not-critical outcomes; critical + warning
\* never exceeds the total; has_issues says that critical + warning > 0.
C5_SummaryConsistent ==
    Returned =>
        LET tcs == result.table_comparisons
            sm == result.summary
        IN  /\ sm.total_tables = Len(tcs)
            /\ sm.total_comparisons =
                   Cardinality(OutcomePositions(tcs, LAMBDA c : TRUE))
            /\ sm.critical_count =
                   Cardinality(OutcomePositions(tcs, LAMBDA c : c.is_critical))
            /\ sm.warning_count =
                   Cardinality(OutcomePositions(tcs,
                       LAMBDA c : c.is_warning /\ ~c.is_critical))
            /\ sm.critical_count + sm.warning_count <= sm.total_comparisons
            /\ sm.has_issues <=> (sm.critical_count + sm.warning_count > 0)

\* C5 witness: a result over two tables with a critical outcome, a warning
\* outcome and an outcome that is neither.
C5_Witness ==
    /\ Returned
    /\ result.summary.total_tables = 2
    /\ result.summary.critical_count > 0
    /\ result.summary.warning_count > 0
    /\ result.summary.critical_count + result.summary.warning_count
           < result.summary.total_comparisons

\* A second witness of the summary: warnings only, and has_issues is set.
C5_WarningsOnly ==
    /\ Returned
    /\ result.summary.critical_count = 0
    /\ result.summary.warning_count > 0
    /\ result.summary.has_issues

CommonTableIds ==
    get_available_tables(base_parser) \cap get_available_tables(target_parser)

\* C6 as stated: with selected_tables None or an empty list the tables
\* considered are exactly the common table identifiers; with a non-empty
\* list they are exactly the requested ones.
C6_EmptyOrNoneIsIntersection ==
    result.status # "none" =>
        IF selected_tables.is_none \/ Len(selected_tables.list) = 0
        THEN Range(result.considered) = CommonTableIds
        ELSE result.considered = selected_tables.list

\* C6 amended: with selected_tables None the tables considered are exactly
\* the common table identifiers, each once; with a list, empty or not, they
\* are exactly the requested ones (an empty list considers no table).
C6_NoneIsIntersection ==
    result.status # "none" =>
        IF selected_tables.is_none
        THEN /\ Range(result.considered) = CommonTableIds
             /\ Len(result.considered) = Cardinality(CommonTableIds)
        ELSE result.considered = selected_tables.list

\* C6 witness: a call with None over reports that share a table, the
\* baseline holding a table that the target lacks.
C6_Witness ==
    /\ result.status # "none"
    /\ selected_tables.is_none
    /\ CommonTableIds # {}
    /\ get_available_tables(base_parser) \ CommonTableIds # {}

\* A call with an empty list over reports that share tables.
C6_EmptyListWitness ==
    /\ Returned
    /\ ~selected_tables.is_none
    /\ Len(selected_tables.list) = 0
    /\ CommonTableIds # {}
    /\ Len(result.table_comparisons) = 0

\* Comparing table t (held by both reports) in cross-platform mode raises:
\* a numeric common column with values on both sides holds a text.
CrossRaises(t) ==
    LET b == get_table(base_parser, t)[1]
        g == get_table(target_parser, t)[1]
    IN  \E h \in CommonHeaders(b, g) :
            /\ _is_numeric_column(h)
            /\ Len(ColumnValues(b.rows, h)) > 0
            /\ Len(ColumnValues(g.rows, h)) > 0
            /\ SumRaises(ColumnValues(b.rows, h)) \/ SumRaises(ColumnValues(g.rows, h))

\* C7: a requested table that one (or each) of the reports lacks has no
\* TableComparison and is not counted in total_tables; it does not make
\* the call raise (a call raises only over a table that both reports
\* hold); the requested tables that produce outcomes are all compared.
C7_MissingTableSkipped ==
    (~selected_tables.is_none /\ result.status # "none") =>
        LET requested == Range(selected_tables.list)
            positions == {i \in 1..Len(selected_tables.list) :
                              ProducedOutcomes(selected_tables.list[i])}
        IN  /\ Raised => \E t \in requested :
                   InBoth(t) /\ ModeOfCall = "cross_platform" /\ CrossRaises(t)
            /\ Returned =>
                   /\ \A t \in requested : ~InBoth(t) => ~HasTableComparison(t)
                   /\ result.summary.total_tables = Cardinality(positions)
                   /\ \A t \in requested :
                          ProducedOutcomes(t) => HasTableComparison(t)

\* C7 witness: a returned call that requested a table held by the baseline
\* only, before a table that both hold and that was compared.
C7_Witness ==
    /\ Returned
    /\ ~selected_tables.is_none
    /\ Len(selected_tables.list) = 2
    /\ selected_tables.list[1] \in get_available_tables(base_parser)
    /\ selected_tables.list[1] \notin get_available_tables(target_parser)
    /\ HasTableComparison(selected_tables.list[2])
    /\ result.summary.total_tables = 1

\* The mode that the two engine tags select.
ModeOfTags(base_type, target_type) ==
    IF base_type # target_type THEN "cross_platform"
    ELSE IF base_type = "oracle_awr" THEN "oracle_oracle"
    ELSE "postgres_postgres"

\* The threshold configuration of a mode ({} when none is configured).
ConfiguredThresholds(mode) ==
    DictGet(config.thresholds,
            IF mode = "cross_platform" THEN "cross_platform" ELSE "same_platform",
            {})

\* C8: equal engine tags select oracle_oracle or postgres_postgres and the
\* 'same_platform' thresholds, different tags select cross_platform and the
\* 'cross_platform' thresholds; every table of the call is aligned by the
\* strategy of that mode (rows by key, or column means) and classified
\* against the returned thresholds.
C8_ModeSelectsThresholdsAndAlignment ==
    Returned =>
        LET mode == ModeOfTags(base_parser.metadata.report_type,
                               target_parser.metadata.report_type)
            th == ConfiguredThresholds(mode)
        IN  /\ result.comparison_type = mode
            /\ result.thresholds = th
            /\ \A i \in 1..Len(result.table_comparisons) :
                   LET tc == result.table_comparisons[i]
                   IN  IF mode = "cross_platform"
                       THEN \E order \in IterationOrders(
                                CommonHeaders(tc.base_table, tc.target_table)) :
                                tc.comparisons =
                                    _compare_cross_platform(tc.base_table,
                                        tc.target_table, th, order).comparisons
                       ELSE tc.comparisons =
                                _compare_same_platform(tc.base_table,
                                                       tc.target_table, th)

\* C8 witness: a cross-platform result whose thresholds differ from the
\* same-platform ones and that classified an outcome as a warning which
\* the same-platform thresholds would have made critical.
C8_Witness ==
    /\ Returned
    /\ result.comparison_type = "cross_platform"
    /\ result.thresholds # get_thresholds("same_platform")
    /\ \E i \in 1..Len(result.table_comparisons) :
           \E j \in 1..Len(result.table_comparisons[i].comparisons) :
               LET c == result.table_comparisons[i].comparisons[j]
               IN  /\ c.is_warning
                   /\ _compare_values(c.metric_name, c.base_value, c.target_value,
                                      get_thresholds("same_platform")).is_critical

\* A same-engine result of each kind.
C8_SameEngineWitness ==
    /\ Returned
    /\ result.comparison_type = "postgres_postgres"
    /\ Len(result.table_comparisons) = 2

(***************************************************************************)
(* Properties of the outcomes.                                             *)
(***************************************************************************)
\* The outcomes of the result, over all its TableComparisons.
Outcomes ==
    IF Returned
    THEN UNION {Range(result.table_comparisons[i].comparisons) :
                    i \in 1..Len(result.table_comparisons)}
    ELSE {}

WarningOf(thresholds) == DictGet(thresholds, "warning_percent", DefaultWarningPercent)

CriticalOf(thresholds) == DictGet(thresholds, "critical_percent", DefaultCriticalPercent)

CoercesToZero(v) == CanFloat(v) /\ ToFloat(v).n = 0

\* C2: an outcome whose baseline value coerces to exactly 0 has a null
\* percent_change, whatever the target is, and neither flag set.
C2_ZeroBaselineNoPercent ==
    \A o \in Outcomes :
        CoercesToZero(o.base_value) =>
            o.percent_change = None /\ ~o.is_warning /\ ~o.is_critical

\* C2 witness: an outcome with a zero baseline and a numeric target that
\* differs from it.
C2_Witness ==
    \E o \in Outcomes :
        /\ CoercesToZero(o.base_value)
        /\ o.absolute_change # None
        /\ o.absolute_change.n # 0

\* C3: for an outcome with percent change p and the thresholds w, c of the
\* call: is_critical iff |p| >= c, is_warning iff w <= |p| < c, and the two
\* flags are never both set.
C3_Classification ==
    \A o \in Outcomes :
        o.percent_change # None =>
            LET p == o.percent_change
                w == WarningOf(result.thresholds)
                c == CriticalOf(result.thresholds)
            IN  /\ o.is_critical <=> Abs(p.n) >= c * p.d
                /\ o.is_warning <=> (Abs(p.n) >= w * p.d /\ Abs(p.n) < c * p.d)
                /\ ~(o.is_warning /\ o.is_critical)

\* C3 witness: with thresholds 15 and 30, an outcome of exactly 30 percent,
\* which is critical and not a warning.
C3_Witness ==
    /\ Returned
    /\ result.thresholds = Thresholds(15, 30)
    /\ \E o \in Outcomes :
           o.percent_change = FloatV(30, 1) /\ o.is_critical /\ ~o.is_warning

\* Further cases of the classification with thresholds 15 and 30: a change
\* just below 30 percent is a warning only, one below 15 percent is neither.
C3_WarningWitness ==
    /\ Returned
    /\ result.thresholds = Thresholds(15, 30)
    /\ \E o \in Outcomes :
           o.percent_change = FloatV(299, 10) /\ o.is_warning /\ ~o.is_critical

C3_NeitherWitness ==
    /\ Returned
    /\ result.thresholds = Thresholds(15, 30)
    /\ \E o \in Outcomes :
           o.percent_change = FloatV(10, 1) /\ ~o.is_warning /\ ~o.is_critical

\* The same-engine call over baseline row {Metric: DB Time, Per Second:
\* 1000} and the target row with Per Second = value, thresholds 15/30.
IsScenario(value) ==
    /\ Returned
    /\ base_parser.tables = {<<"load_profile", LoadProfile(IntV(1000))>>}
    /\ target_parser.tables = {<<"load_profile", LoadProfile(IntV(value))>>}
    /\ base_parser.metadata.report_type = target_parser.metadata.report_type
    /\ result.thresholds = Thresholds(15, 30)

\* The result holds one table with the one outcome c.
OneOutcome(c) ==
    /\ Len(result.table_comparisons) = 1
    /\ result.table_comparisons[1].comparisons = <<c>>

\* C4: when both values coerce to numbers, absolute_change = target - base
\* and, for a non-zero baseline, percent_change = absolute_change / |base|
\* * 100, with the sign of absolute_change; 1000 against 1300 gives one
\* outcome (300, 30 percent, critical), 1000 against 1100 gives 10 percent
\* and no flag.
C4_ChangeArithmetic ==
    /\ \A o \in Outcomes :
           (CanFloat(o.base_value) /\ CanFloat(o.target_value)) =>
               LET b == ToFloat(o.base_value)
                   t == ToFloat(o.target_value)
                   a == o.absolute_change
                   p == o.percent_change
               IN  /\ a # None
                   /\ a.n * t.d * b.d = a.d * (t.n * b.d - b.n * t.d)
                   /\ b.n # 0 =>
                          /\ p # None
                          /\ p.n * a.d * Abs(b.n) = 100 * a.n * b.d * p.d
                          /\ (p.n > 0) = (a.n > 0)
                          /\ (p.n < 0) = (a.n < 0)
    /\ IsScenario(1300) =>
           OneOutcome(ComparisonResult("Per Second", IntV(1000), IntV(1300),
                                       FloatV(300, 1), FloatV(30, 1), FALSE, TRUE))
    /\ IsScenario(1100) =>
           OneOutcome(ComparisonResult("Per Second", IntV(1000), IntV(1100),
                                       FloatV(100, 1), FloatV(10, 1), FALSE, FALSE))

\* C4 witness: an outcome with a negative baseline and a larger target:
\* both changes are positive.
C4_Witness ==
    \E o \in Outcomes :
        /\ CanFloat(o.base_value) /\ ToFloat(o.base_value).n < 0
        /\ o.absolute_change # None /\ o.absolute_change.n > 0
        /\ o.percent_change # None /\ o.percent_change.n > 0

\* The two end-to-end scenarios are reached.
C4_ScenarioWitness == IsScenario(1300) /\ Len(result.table_comparisons) = 1

C4_SecondScenarioWitness == IsScenario(1100) /\ Len(result.table_comparisons) = 1

(***************************************************************************)
(* Properties of the same-engine alignment.                                *)
(***************************************************************************)
SameEngine == ModeOfCall # "cross_platform"

\* The comparisons recorded for table t (none when t has no TableComparison).
ComparisonsFor(t) ==
    IF HasTableComparison(t)
    THEN result.table_comparisons[
             CHOOSE i \in 1..Len(result.table_comparisons) :
                 result.table_comparisons[i].table_name = t].comparisons
    ELSE <<>>

\* The stringified value of the row's first column.
FirstColumnText(table, row) == Str(RowGet(row, table.headers[1]))

\* The target rows with the key of baseline row r.
MatchingRows(base_table, target_table, r) ==
    {g \in Range(target_table.rows) :
        FirstColumnText(target_table, g) = FirstColumnText(base_table, base_table.rows[r])}

\* The header positions of the baseline table that Qualifies for the rows.
QualifiedHeaders(base_table, base_row, target_row, Qualifies(_, _, _)) ==
    SelectSeq([i \in 1..Len(base_table.headers) |-> base_table.headers[i]],
              LAMBDA h : Qualifies(h, base_row, target_row))

\* seq is, baseline row by baseline row from row r on, Emitted(base_row, g)
\* for a target row g with the key of the baseline row, and nothing for a
\* baseline row without such a target row.
RECURSIVE AlignedFrom(_, _, _, _, _)
AlignedFrom(seq, base_table, target_table, Emitted(_, _), r) ==
    IF r > Len(base_table.rows) THEN Len(seq) = 0
    ELSE
      LET matching == MatchingRows(base_table, target_table, r)
          options == IF matching = {} THEN {<<>>}
                     ELSE {Emitted(base_table.rows[r], g) : g \in matching}
      IN  \E e \in options :
              /\ Len(e) <= Len(seq)
              /\ SubSeq(seq, 1, Len(e)) = e
              /\ AlignedFrom(SubSeq(seq, Len(e) + 1, Len(seq)), base_table,
                             target_table, Emitted, r + 1)

\* Both cells of a numeric column that both rows hold are non-null.
Comparable(h, base_row, target_row) ==
    /\ RowHas(base_row, h) /\ RowHas(target_row, h)
    /\ h \notin text_columns \cup config.ignored_columns
    /\ RowGet(base_row, h) # None /\ RowGet(target_row, h) # None

\* A numeric column that both rows hold.
PresentNumeric(h, base_row, target_row) ==
    /\ RowHas(base_row, h) /\ RowHas(target_row, h)
    /\ h \notin text_columns \cup config.ignored_columns

\* C9: in same-engine mode the outcomes of a table are, baseline row by
\* baseline row, comparisons of that row's values with the values of a
\* target row whose stringified first-column value equals the baseline
\* row's; a baseline row without such a target row emits nothing, and the
\* call does not raise.
C9_RowsAlignedByKey ==
    (result.status # "none" /\ SameEngine) =>
        /\ Returned
        /\ \A t \in Range(result.considered) :
               InBoth(t) =>
                   LET b == get_table(base_parser, t)[1]
                       g == get_table(target_parser, t)[1]
                   IN  AlignedFrom(ComparisonsFor(t), b, g,
                           LAMBDA br, tr :
                               LET hs == QualifiedHeaders(b, br, tr, Comparable)
                               IN  [i \in 1..Len(hs) |->
                                       _compare_values(hs[i], RowGet(br, hs[i]),
                                                       RowGet(tr, hs[i]),
                                                       result.thresholds)],
                           1)

\* The one table of the baseline report (the reports of SpecSame hold one).
OnlyTable == CHOOSE t \in get_available_tables(base_parser) : TRUE

\* C9 witness: one baseline row has no target row of its key; another is
\* aligned with a target row at a different position, whose key is a
\* different value with the same text (None and "None"), and is compared.
C9_Witness ==
    /\ Returned /\ SameEngine
    /\ LET b == get_table(base_parser, OnlyTable)[1]
           g == get_table(target_parser, OnlyTable)[1]
       IN  /\ Len(b.rows) = 2 /\ Len(g.rows) = 2
           /\ MatchingRows(b, g, 1) = {}
           /\ b.rows[2][1][2] = StrV("None")
           /\ g.rows[1][1][2] = None
           /\ MatchingRows(b, g, 2) = {g.rows[1]}
           /\ Len(ComparisonsFor(OnlyTable)) > 0

\* The metric names of a sequence of outcomes.
MetricNames(seq) == [i \in 1..Len(seq) |-> seq[i].metric_name]

\* C10 as stated: for every baseline row with a matching target row, every
\* numeric column present in both rows gives exactly one outcome, in
\* baseline-row order and then baseline-header order.
C10_EveryNumericColumnCompared ==
    (Returned /\ SameEngine) =>
        \A t \in Range(result.considered) :
            InBoth(t) =>
                LET b == get_table(base_parser, t)[1]
                    g == get_table(target_parser, t)[1]
                IN  AlignedFrom(MetricNames(ComparisonsFor(t)), b, g,
                        LAMBDA br, tr : QualifiedHeaders(b, br, tr, PresentNumeric),
                        1)

\* C10 amended: for every baseline row with a matching target row, every
\* entry of the baseline header list that names a numeric column present
\* in both rows with both cells non-null gives exactly one outcome, in
\* baseline-row order and then baseline-header order; a column with a null
\* cell in either row gives none.
C10_EveryNonNullNumericColumnCompared ==
    (Returned /\ SameEngine) =>
        \A t \in Range(result.considered) :
            InBoth(t) =>
                LET b == get_table(base_parser, t)[1]
                    g == get_table(target_parser, t)[1]
                IN  AlignedFrom(MetricNames(ComparisonsFor(t)), b, g,
                        LAMBDA br, tr : QualifiedHeaders(b, br, tr, Comparable),
                        1)

\* C10 witness: a baseline row aligned with a target row; the column Per
\* Second has a null cell and gives no outcome, the column Per Transaction
\* gives one.
C10_Witness ==
    /\ Returned /\ SameEngine
    /\ LET b == get_table(base_parser, OnlyTable)[1]
           g == get_table(target_parser, OnlyTable)[1]
       IN  /\ Len(b.rows) = 1
           /\ MatchingRows(b, g, 1) # {}
           /\ RowGet(b.rows[1], "Per Second") = None
           /\ \A tr \in MatchingRows(b, g, 1) : RowGet(tr, "Per Second") # None
           /\ MetricNames(ComparisonsFor(OnlyTable)) = <<"Per Transaction">>

\* Two outcomes of one row pair, in header order; and a header listed twice.
C10_HeaderOrderWitness ==
    /\ Returned /\ SameEngine
    /\ MetricNames(ComparisonsFor(OnlyTable))
           = <<"Per Second", "Per Transaction", "Per Second", "Per Transaction">>

C10_HeaderTwiceWitness ==
    /\ Returned /\ SameEngine
    /\ Len(get_table(base_parser, OnlyTable)[1].rows) = 1
    /\ MetricNames(ComparisonsFor(OnlyTable)) = <<"Per Second", "Per Second">>

(***************************************************************************)
(* Values that cannot be coerced.                                          *)
(***************************************************************************)
\* The cell of column Per Second in the one row of the one table of parser.
PerSecondOf(parser) ==
    LET name == CHOOSE t \in get_available_tables(parser) : TRUE
    IN  RowGet(get_table(parser, name)[1].rows[1], "Per Second")

\* C11: a same-engine pair of non-null cells is recorded whether or not it
\* can be coerced: one outcome with the two original values; when either
\* value cannot be coerced to a number the outcome has absolute_change and
\* percent_change null and both flags false; and absolute_change is
\* non-null only when both values coerce.
C11_UncoercibleRecorded ==
    /\ (Returned /\ SameEngine
          /\ PerSecondOf(base_parser) # None /\ PerSecondOf(target_parser) # None) =>
           /\ Len(result.table_comparisons) = 1
           /\ Len(result.table_comparisons[1].comparisons) = 1
           /\ LET o == result.table_comparisons[1].comparisons[1]
              IN  /\ o.metric_name = "Per Second"
                  /\ o.base_value = PerSecondOf(base_parser)
                  /\ o.target_value = PerSecondOf(target_parser)
    /\ \A o \in Outcomes :
           /\ ~(CanFloat(o.base_value) /\ CanFloat(o.target_value)) =>
                  /\ o.absolute_change = None
                  /\ o.percent_change = None
                  /\ ~o.is_warning /\ ~o.is_critical
           /\ o.absolute_change # None =>
                  CanFloat(o.base_value) /\ CanFloat(o.target_value)

\* C11 witness: a numeric baseline against the text N/A, recorded with both
\* values and no change.
C11_Witness ==
    /\ Returned /\ SameEngine
    /\ \E o \in Outcomes :
           /\ o.base_value = IntV(1000)
           /\ o.target_value = StrV("N/A")
           /\ o.absolute_change = None

(***************************************************************************)
(* Properties of the cross-platform comparison.                            *)
(***************************************************************************)
\* The non-null cells of column h over the rows of table, in row order.
NonNullCells(table, h) ==
    SelectSeq([i \in 1..Len(table.rows) |-> RowGet(table.rows[i], h)],
              LAMBDA v : v # None)

HasText(cells) == \E i \in 1..Len(cells) : cells[i].k = "str"

\* The sum of a sequence of int cells.
SumOfCells(cells) == SumOver([i \in 1..Len(cells) |-> cells[i].n], 1)

\* Value v is the arithmetic mean of the int cells.
IsMeanOf(v, cells) ==
    /\ v.k = "float"
    /\ v.n * Len(cells) = v.d * SumOfCells(cells)

\* The column names common to the two tables that are classified numeric.
CommonNumeric(b, g) ==
    {h \in Range(b.headers) \cap Range(g.headers) :
        h \notin text_columns \cup config.ignored_columns}

\* The positions of the outcomes for metric h among the comparisons cs.
PositionsOf(cs, h) == {i \in 1..Len(cs) : cs[i].metric_name = h}

CrossCall == result # NoResult /\ ModeOfCall = "cross_platform"

\* The call compared baseline Time cells bs against target Time cells gs.
IsTimeScenario(bs, gs) ==
    /\ CrossCall /\ Returned
    /\ NonNullCells(get_table(base_parser, "wait_events")[1], "Time") = bs
    /\ NonNullCells(get_table(target_parser, "wait_events")[1], "Time") = gs

C12_NullColumnWitness ==
    /\ IsTimeScenario(<<>>, <<IntV(180), IntV(220)>>)
    /\ MetricNames(ComparisonsFor("wait_events")) = <<"Waits">>

\* C13: compare_reports returns a result for every pair of parsed reports,
\* in same-engine and in cross-engine mode, whatever mix of numbers, text
\* and nulls their numeric columns hold.
C13_NeverRaises == result # NoResult => Returned

\* A cross-engine call over a baseline Time column with the text N/A and a
\* numeric target Time column has raised.
C13_RaisedWitness ==
    /\ CrossCall /\ Raised
    /\ HasText(NonNullCells(get_table(base_parser, "wait_events")[1], "Time"))
    /\ ~HasText(NonNullCells(get_table(target_parser, "wait_events")[1], "Time"))

(***************************************************************************)
(* Classification of columns.                                              *)
(***************************************************************************)
\* The names that are never compared: the fixed list and the configured one.
ExcludedNames ==
    {"Metric", "Event", "SQL ID", "Query ID", "Name", "Description"}
        \cup config.ignored_columns

\* The target row that baseline row r is aligned with: the last target row
\* with the same first-column text (<<>> when there is none).
LastMatch(b, g, r) ==
    LET js == {j \in 1..Len(g.rows) :
                  FirstColumnText(g, g.rows[j]) = FirstColumnText(b, b.rows[r])}
    IN  IF js = {} THEN <<>>
        ELSE g.rows[CHOOSE j \in js : \A k \in js : k <= j]

\* Column h of table t has a pair to compare: in same-engine mode a
\* baseline row and its aligned target row with non-null cells, in
\* cross-engine mode a non-null cell in each table.
HasPair(t, h) ==
    LET b == get_table(base_parser, t)[1]
        g == get_table(target_parser, t)[1]
    IN  IF SameEngine
        THEN \E r \in 1..Len(b.rows) :
                 /\ RowGet(b.rows[r], h) # None
                 /\ RowGet(LastMatch(b, g, r), h) # None
        ELSE Len(NonNullCells(b, h)) > 0 /\ Len(NonNullCells(g, h)) > 0

\* The tables of the call that both reports hold.
ComparedTables ==
    {t \in Range(result.considered) : InBoth(t)}

\* C14: no outcome of a result, in either mode, is named after a column of
\* the fixed exclusion list or of the configured ignored_columns; every
\* other common column with a pair to compare has an outcome.
C14_ExcludedColumnsNeverCompared ==
    Returned =>
        /\ \A o \in Outcomes : o.metric_name \notin ExcludedNames
        /\ \A t \in ComparedTables :
           \A h \in CommonHeaders(get_table(base_parser, t)[1],
                                  get_table(target_parser, t)[1]) :
               (h \notin ExcludedNames /\ HasPair(t, h)) =>
                   \E i \in 1..Len(ComparisonsFor(t)) :
                       ComparisonsFor(t)[i].metric_name = h

\* C14 witness: wait_events compared with Waits configured as ignored:
\* Time(s) has outcomes, Event and Waits have none although their cells
\* are non-null.
C14_Witness ==
    /\ Returned
    /\ config.ignored_columns = {"Waits"}
    /\ InBoth("wait_events")
    /\ HasPair("wait_events", "Waits")
    /\ Len(ComparisonsFor("wait_events")) > 0
    /\ \A i \in 1..Len(ComparisonsFor("wait_events")) :
           ComparisonsFor("wait_events")[i].metric_name = "Time(s)"

\* The same in cross-engine mode.
C14_CrossWitness == C14_Witness /\ ~SameEngine

(***************************************************************************)
(* Properties of _normalize_value.                                         *)
(***************************************************************************)
Normalized == result.status = "normalized"

\* C18: for a non-negative integer n, the decimal string of n with
\* thousands separators normalizes to the integer n, the value that the
\* string without separators normalizes to.
C18_ThousandsRoundTrip ==
    (Normalized /\ "number" \in DOMAIN result) =>
        /\ result.value = WithSeparators(DecimalString(result.number))
        /\ result.returned = IntV(result.number)
        /\ result.returned = _normalize_value(DecimalString(result.number))

\* C18 witness: "1,234,567" gave the integer 1234567.
C18_Witness ==
    /\ Normalized
    /\ result.value = <<"1", ",", "2", "3", "4", ",", "5", "6", "7">>
    /\ result.returned = IntV(1234567)

\* The rules of _normalize_value for a trimmed, non-empty string t, as the
\* value each gives (<<>> when the rule does not match): a decimal number
\* after removing commas, a number before a final '%', a number before a
\* final K, M, G or T.
NumberRule(t) ==
    LET clean == RemoveCommas(t)
    IN  IF \E i \in 1..Len(clean) : clean[i] = "."
        THEN ParseFloat(clean)
        ELSE IF ParseInt(clean) = <<>> THEN <<>> ELSE <<IntV(ParseInt(clean)[1])>>

PercentRule(t) ==
    IF t[Len(t)] = "%" THEN ParseFloat(RemoveCommas(AllButLast(t))) ELSE <<>>

UnitRule(t) ==
    LET clean == RemoveCommas(t)
        prefix == IF clean = <<>> THEN <<>> ELSE ParseFloat(AllButLast(clean))
    IN  IF prefix = <<>> THEN <<>>
        ELSE CASE clean[Len(clean)] = "K" -> <<ScaledV(prefix[1], 1)>>
               [] clean[Len(clean)] = "M" -> <<ScaledV(prefix[1], 2)>>
               [] clean[Len(clean)] = "G" -> <<ScaledV(prefix[1], 3)>>
               [] clean[Len(clean)] = "T" -> <<ScaledV(prefix[1], 4)>>
               [] OTHER -> <<>>

\* The call was made on the string cs and returned v.
Gave(cs, v) == Normalized /\ result.value = cs /\ result.returned = v

\* C19: the rules apply in order and the first match wins: an empty or
\* whitespace-only string gives null; else a decimal number after removing
\* commas gives an int (no decimal point) or a float (decimal point); else
\* a number before a final '%' gives that number; else a number before a
\* final K, M, G, T gives it times 1024, 1024^2, 1024^3, 1024^4; "12.5%"
\* gives 12.5 and "2M" gives 2 * 1048576.
C19_RulesInOrder ==
    Normalized =>
        LET t == Strip(result.value)
            r == result.returned
        IN  /\ t = <<>> => r = None
            /\ t # <<>> =>
                 /\ NumberRule(t) # <<>> =>
                        /\ r = NumberRule(t)[1]
                        /\ r.k = IF "." \in Range(RemoveCommas(t)) THEN "float" ELSE "int"
                 /\ (NumberRule(t) = <<>> /\ PercentRule(t) # <<>>) =>
                        r = PercentRule(t)[1] /\ r.k = "float"
                 /\ (NumberRule(t) = <<>> /\ PercentRule(t) = <<>> /\ UnitRule(t) # <<>>) =>
                        r = UnitRule(t)[1] /\ r.k = "float"
            /\ result.value = <<"1", "2", ".", "5", "%">> => r = FloatV(25, 2)
            /\ result.value = <<"2", "M">> =>
                   r.k = "float" /\ ToFloat(r) = FloatV(2 * 1048576, 1)
            /\ result.value = <<"2", "T">> => r = ScaledV(FloatV(2, 1), 4)
            /\ result.value = <<"1", ",", "2", "3", "4", ".", "5", "K">> =>
                   ToFloat(r) = FloatV(2469 * 512, 1)

\* C19 witness: "12.5%" gave 12.5.
C19_Witness == Gave(<<"1", "2", ".", "5", "%">>, FloatV(25, 2))

\* Each other rule has applied: whitespace only, an int with commas, a
\* float, a unit suffix.
C19_NullWitness == Gave(<<" ", " ">>, None)

C19_IntWitness == Gave(<<"1", ",", "0", "0">>, IntV(100))

C19_FloatWitness == Gave(<<"-", "1", ".", "1">>, FloatV(-11, 10))

C19_UnitWitness == Gave(<<"2", "M">>, ScaledV(FloatV(2, 1), 2))

\* C20: a string that is not empty after trimming and matches none of the
\* number, percent and unit rules is returned as the original trimmed
\* string; a bare "K", a bare "%" and "1.2.3" are.
C20_TextReturnedTrimmed ==
    Normalized =>
        LET t == Strip(result.value)
        IN  /\ (t # <<>> /\ NumberRule(t) = <<>> /\ PercentRule(t) = <<>>
                  /\ UnitRule(t) = <<>>) =>
                   result.returned = StrV(Join(t))
            /\ result.value = <<"K">> => result.returned = StrV("K")
            /\ result.value = <<"%">> => result.returned = StrV("%")
            /\ result.value = <<"1", ".", "2", ".", "3">> =>
                   result.returned = StrV("1.2.3")
            /\ result.value = <<"1", "e", "3">> => result.returned = StrV("1e3")

\* C20 witness: " DB, CPU " came back trimmed, with its comma.
C20_Witness ==
    Gave(<<" ", "D", "B", ",", " ", "C", "P", "U", " ">>, StrV("DB, CPU"))

C20_BareSuffixWitness == Gave(<<"K">>, StrV("K"))

(***************************************************************************)
(* Properties of the parsers.                                              *)
(***************************************************************************)
\* A call of extract_table on a parsed markup document, and the table node
\* that it took.
MarkupCall == result.status = "extracted" /\ base_parser.soup # <<>>

TakenTable ==
    find_table(base_parser.class, base_parser.soup[1], result.table_name)

\* The rows after the header row of a table node.
DataRowsOf(table) == IF table.rows = <<>> THEN <<>> ELSE Tail(table.rows)

\* The rows made of the first i data rows whose number of cells is the
\* number of header cells, in document order.
RECURSIVE RowsByCellCount(_, _, _)
RowsByCellCount(headers, trs, i) ==
    IF i = 0 THEN <<>>
    ELSE IF Len(trs[i]) = Len(headers)
         THEN Append(RowsByCellCount(headers, trs, i - 1),
                     RowData(headers, trs[i], Len(trs[i])))
         ELSE RowsByCellCount(headers, trs, i - 1)

\* C15: in markup extraction the rows of the extracted table are exactly
\* the data rows of the table node whose cell count equals the number of
\* header cells, in document order: a row with another cell count never
\* appears, a row with that cell count always does, and a dropped row does
\* not stop the rows after it.
C15_RowsWithHeaderCellCount ==
    MarkupCall /\ TakenTable # <<>> =>
        /\ result.returned # <<>>
        /\ result.returned[1].rows =
               RowsByCellCount(HeaderTexts(TakenTable[1]), DataRowsOf(TakenTable[1]),
                               Len(DataRowsOf(TakenTable[1])))

\* A data row with as many cells as the header row (a th cell and a td
\* cell under two headers) is missing from the extracted rows.
C15_DroppedRowWitness ==
    /\ MarkupCall
    /\ TakenTable # <<>>
    /\ Len(HeaderTexts(TakenTable[1])) = 2
    /\ Len(DataRowsOf(TakenTable[1])) = 1
    /\ Len(DataRowsOf(TakenTable[1])[1]) = 2
    /\ DataRowsOf(TakenTable[1])[1][1].tag = "th"
    /\ result.returned[1].rows = <<>>

\* A data row with three cells (a th cell and two td cells) appears in the
\* rows extracted under two headers, its td cells under the wrong headers,
\* after a dropped row.
C15_MisalignedRowWitness ==
    /\ MarkupCall
    /\ TakenTable # <<>>
    /\ Len(HeaderTexts(TakenTable[1])) = 2
    /\ Len(DataRowsOf(TakenTable[1])) = 2
    /\ Len(DataRowsOf(TakenTable[1])[1]) = 1
    /\ Len(DataRowsOf(TakenTable[1])[2]) = 3
    /\ Len(result.returned[1].rows) = 1
    /\ RowGet(result.returned[1].rows[1], "Event") = IntV(7)

\* The tables that the parser holds and the table that the last call of
\* extract_table returned.
ExtractedTables ==
    {p[2] : p \in base_parser.tables}
        \cup (IF result.status = "extracted" /\ result.returned # <<>>
              THEN {result.returned[1]} ELSE {})

RowKeys(row) == {row[i][1] : i \in 1..Len(row)}

\* C16: in every table that an extraction produces, from markup or from
\* plain text and in either parser, the keys of every row are among the
\* headers of the table.
C16_RowKeysAmongHeaders ==
    \A table \in ExtractedTables :
        \A i \in 1..Len(table.rows) : RowKeys(table.rows[i]) \subseteq Range(table.headers)

\* extract_table returned a table with a row from a markup document.
C16_Witness ==
    /\ MarkupCall
    /\ result.returned # <<>>
    /\ result.returned[1].rows # <<>>
    /\ RowKeys(result.returned[1].rows[1]) = {"Event", "Waits"}

\* A row under two header cells of the same text has one key.
C16_DuplicateHeaderWitness ==
    /\ MarkupCall
    /\ result.returned # <<>>
    /\ result.returned[1].headers = <<"Waits", "Waits">>
    /\ result.returned[1].rows # <<>>
    /\ RowKeys(result.returned[1].rows[1]) = {"Waits"}

\* parse() stored a table from the plain text of an AWR report.
C16_AwrTextWitness ==
    /\ base_parser.class = "AWRParser"
    /\ base_parser.soup = <<>>
    /\ \E p \in base_parser.tables :
           /\ p[1] = "load_profile"
           /\ \E i \in 1..Len(p[2].rows) :
                  RowKeys(p[2].rows[i]) = {"Metric", "Per Second", "Per Transaction"}

\* parse() stored a table from the plain text of a pg_profile report.
C16_PgTextWitness ==
    /\ base_parser.class = "PgProfileParser"
    /\ base_parser.soup = <<>>
    /\ \E p \in base_parser.tables :
           /\ p[1] = "wait_events"
           /\ \E i \in 1..Len(p[2].rows) :
                  RowKeys(p[2].rows[i]) = {"Event", "Count", "Time (ms)", "% Total"}

\* parse() has returned.
Parsed == base_parser._raw_content # <<>>

\* The table identifiers whose table parse() located, and those located
\* with no valid row.
Located ==
    {name \in Range(table_names(base_parser.class)) :
         extract_table(base_parser, name) # <<>>}

LocatedEmpty == {name \in Located : extract_table(base_parser, name)[1].rows = <<>>}

\* C17: after parse(), from markup or plain text and in either parser,
\* every table identifier of the tables mapping maps to a table with at
\* least one row, and a table located with no valid row has no entry:
\* get_available_tables lists the located tables with rows and no other.
C17_StoredTablesHaveRows ==
    Parsed =>
        /\ \A p \in base_parser.tables : Len(p[2].rows) >= 1
        /\ get_available_tables(base_parser) = Located \ LocatedEmpty

\* parse() located a table in a markup document whose data rows are all
\* dropped, and stored nothing.
C17_Witness ==
    /\ Parsed
    /\ base_parser.soup # <<>>
    /\ "wait_events" \in LocatedEmpty
    /\ Len(find_table(base_parser.class, base_parser.soup[1], "wait_events")[1].rows) = 3
    /\ get_available_tables(base_parser) = {}

\* parse() found a section of a plain text with no valid line.
C17_TextWitness ==
    /\ Parsed
    /\ base_parser.soup = <<>>
    /\ "load_profile" \in LocatedEmpty
    /\ Len(base_parser.file_path.lines) = 3
    /\ get_available_tables(base_parser) = {}

\* parse() stored a table with rows.
C17_StoredWitness ==
    /\ Parsed
    /\ get_available_tables(base_parser) = {"wait_events"}
    /\ LocatedEmpty = {}

(***************************************************************************)
(* Properties of the front ends.                                           *)
(***************************************************************************)
Detected == result.status = "detected"

\* The text that a detector looks at: the first ReadLimit characters.
DetectionText(file) == Flat(ReadChars(file.head, ReadLimit))

HasAwrMarker(file) ==
    \/ Contains(DetectionText(file), MarkerAWR)
    \/ Contains(DetectionText(file), MarkerRepository)

HasPgMarker(file) ==
    \/ Contains(DetectionText(file), MarkerPgProfile)
    \/ Contains(DetectionText(file), MarkerPostgreSQL)

\* C21: a detection returns a parser for every content; the parser of
\* pg_profile only when a marker of pg_profile is in the first ReadLimit
\* characters, the AWR parser when no marker of either engine is there; a
\* markup file and a plain file with the same beginning get the same engine;
\* the detectors of the web and of the desktop front end choose the same
\* engine.
C21_DetectionChoosesEngine ==
    Detected =>
        /\ result.parser.class \in ParserClasses
        /\ result.parser.file_path = result.file
        /\ result.parser.class = "PgProfileParser" => HasPgMarker(result.file)
        /\ ~HasAwrMarker(result.file) /\ ~HasPgMarker(result.file)
               => result.parser.class = "AWRParser"
        /\ get_parser_for_file([result.file EXCEPT !.markup = ~@]).class
               = result.parser.class
        /\ _create_parser([result.file EXCEPT !.markup = ~@]).class
               = result.parser.class
        /\ get_parser_for_file(result.file).class
               = _create_parser(result.file).class

\* The desktop detector chose pg_profile for a markup file.
C21_Witness ==
    /\ Detected
    /\ result.by = "_create_parser"
    /\ result.file.markup
    /\ Contains(Flat(result.file.head), MarkupMarker)
    /\ result.parser.class = "PgProfileParser"

\* Markers of both engines are in the text: the AWR parser is chosen.
C21_BothMarkersWitness ==
    /\ Detected
    /\ HasAwrMarker(result.file) /\ HasPgMarker(result.file)
    /\ result.parser.class = "AWRParser"

\* A marker lies beyond the first ReadLimit characters and is not seen.
C21_BeyondLimitWitness ==
    /\ Detected
    /\ Contains(Flat(result.file.head), MarkerPostgreSQL)
    /\ ~HasPgMarker(result.file)
    /\ result.parser.class = "AWRParser"

ParseFailed == result.status = "parsed" /\ ~result.returned

C22_UnreadableWitness ==
    /\ ParseFailed
    /\ base_parser._raw_content = <<>>
    /\ base_parser.file_path.fails = "read"

\* parse() returned True and stored a table: the same documents without
\* a failure.
C22_SuccessWitness ==
    /\ result.status = "parsed" /\ result.returned
    /\ base_parser.tables # ReportParser(base_parser.class, base_parser.file_path).tables
    /\ base_parser.metadata # <<>>

\* What parse() returned for a parser of the window: _load_reports calls it
\* once, on the new parser object.
ParseReturnedTrue(parser) ==
    ParseReturns(ReportParser(parser.class, parser.file_path))

\* C23: after every sequence of loads, comparisons and clears of the
\* desktop window, a call of compare_reports gets no parser whose most
\* recent parse() returned False.
C23_CompareNeverGetsFailedParser ==
    result.invoked =>
        /\ ParseReturnedTrue(base_parser[1])
        /\ ParseReturnedTrue(target_parser[1])

\* compare_reports was called with a baseline parser whose parse() returned
\* False, beside the target parser and the table list of an earlier load.
C23_Witness ==
    /\ result.invoked
    /\ ~ParseReturnedTrue(base_parser[1])
    /\ base_parser[1].metadata = <<>>
    /\ ParseReturnedTrue(target_parser[1])
    /\ selected_tables.items # <<>>
    /\ result.status = "compare_error"

\* A comparison after a load whose two reports parsed.
C23_ComparedWitness ==
    /\ result.status = "compared"
    /\ ParseReturnedTrue(base_parser[1])
    /\ ParseReturnedTrue(target_parser[1])

(***************************************************************************)
(* Properties of the configuration of a call.                              *)
(***************************************************************************)
\* A step that is a call of compare_reports: the settings file is as it
\* was, and the call has a result.
CallStep == config'.file = config.file /\ result'.status # "none"

\* The thresholds of the mode of the call in a settings mapping.
ThresholdsIn(settings) ==
    DictGet(settings,
            IF ModeOfCall = "cross_platform" THEN "cross_platform" ELSE "same_platform",
            {})

\* Every outcome of a result is classified against the thresholds th.
ClassifiedAgainst(res, th) ==
    \A i \in 1..Len(res.table_comparisons) :
        \A o \in Range(res.table_comparisons[i].comparisons) :
            o.percent_change # None =>
                /\ o.is_critical
                       <=> Abs(o.percent_change.n) >= CriticalOf(th) * o.percent_change.d
                /\ o.is_warning
                       <=> /\ Abs(o.percent_change.n) >= WarningOf(th) * o.percent_change.d
                           /\ Abs(o.percent_change.n) < CriticalOf(th) * o.percent_change.d

\* C25 as stated: a call that returns classifies all its outcomes against,
\* and returns, the thresholds that the settings file holds at the call.
C25_CallUsesCurrentSettings ==
    [][(CallStep /\ result'.status = "returned") =>
           /\ result'.thresholds = ThresholdsIn(config.file)
           /\ ClassifiedAgainst(result', ThresholdsIn(config.file))]_vars

\* C25: a call that returns classifies all its outcomes against, and
\* returns, one mapping of thresholds: that of the settings which the
\* loader holds, read from the file by the first call and kept afterwards.
C25_CallUsesLoadedSettings ==
    [][(CallStep /\ result'.status = "returned") =>
           /\ config'._configs # <<>>
           /\ config'._configs = (IF config._configs = <<>>
                                  THEN <<config.file>> ELSE config._configs)
           /\ result'.thresholds = ThresholdsIn(config'._configs[1])
           /\ ClassifiedAgainst(result', ThresholdsIn(config'._configs[1]))]_vars

\* A call returned with the thresholds 15 and 30 of the first load and a
\* critical outcome of 30 percent, after the file was changed to 40 and 80.
C25_Witness ==
    /\ Returned
    /\ config._configs = <<ConfiguredBoth>>
    /\ config.file # ConfiguredBoth
    /\ result.thresholds = Thresholds(15, 30)
    /\ ThresholdsIn(config.file) = Thresholds(40, 80)
    /\ \E o \in Outcomes : o.percent_change = FloatV(30, 1) /\ o.is_critical

(***************************************************************************)
(* Frame of a call of compare_reports.                                     *)
(***************************************************************************)
\* res is a result that a call on the reports and the loader of this state
\* can give for a selection, whatever was called before.
IsResultOfCall(res, selected) ==
    \E table_order \in TableOrders(selected),
       lp_order \in HeaderOrders("load_profile"),
       io_order \in HeaderOrders("io_statistics"),
       we_order \in HeaderOrders("wait_events") :
        res = compare_reports(base_parser, target_parser, selected, table_order,
                              [t \in TableIds |->
                                  CASE t = "load_profile" -> lp_order
                                    [] t = "io_statistics" -> io_order
                                    [] OTHER -> we_order])

MatchingHeadings ==
    {i \in 1..Len(base_parser.soup[1]) :
         /\ base_parser.soup[1][i].tag \in heading_tags(base_parser.class)
         /\ re_search(DictGet(table_headers(base_parser.class), result.table_name, ""),
                      base_parser.soup[1][i].text, TRUE)}

TablesAfter(i) ==
    {j \in i + 1..Len(base_parser.soup[1]) : base_parser.soup[1][j].tag = "table"}

InCatalog == result.table_name \in DictKeys(table_headers(base_parser.class))

\* C26: a markup extraction returns the table made of the nearest table
\* node after the first heading, in document order, whose text matches the
\* pattern of the identifier, without regard to case; it returns nothing,
\* and raises nothing, when the identifier is not in the catalog, no
\* heading matches, or no table follows the first matching heading.
C26_FirstHeadingNearestTable ==
    /\ result.status = "raised" => base_parser.soup = <<>>
    /\ MarkupCall =>
           IF \/ ~InCatalog
              \/ MatchingHeadings = {}
              \/ TablesAfter(Least(MatchingHeadings)) = {}
           THEN result.returned = <<>>
           ELSE result.returned =
                    <<_parse_html_table(
                          base_parser.soup[1][Least(TablesAfter(Least(MatchingHeadings)))],
                          result.table_name)>>

\* Two headings match and two tables follow the first: the table returned
\* is that of the nearer table node, which has no row, not that of the
\* later one.
C26_Witness ==
    /\ MarkupCall
    /\ Cardinality(MatchingHeadings) = 2
    /\ Cardinality(TablesAfter(Least(MatchingHeadings))) = 2
    /\ result.returned # <<>>
    /\ result.returned[1].rows = <<>>

\* The heading is written in capitals and is found.
C26_IgnoreCaseWitness ==
    /\ MarkupCall
    /\ \E i \in MatchingHeadings : base_parser.soup[1][i].text = "LOAD PROFILE"
    /\ result.returned # <<>>

\* A heading matches and no table follows it: nothing is returned.
C26_NoTableWitness ==
    /\ MarkupCall
    /\ MatchingHeadings # {}
    /\ TablesAfter(Least(MatchingHeadings)) = {}
    /\ result.returned = <<>>

\* The identifier is in no catalog and a table follows a heading: nothing
\* is returned.
C26_NotInCatalogWitness ==
    /\ MarkupCall
    /\ ~InCatalog
    /\ \E i \in 1..Len(base_parser.soup[1]) : TablesAfter(i) # {}
    /\ result.returned = <<>>

(***************************************************************************)
(* Properties of a header row with a repeated text.                        *)
(***************************************************************************)
\* The header cells of the table node that a markup call took, the data
\* rows that are kept (as many td cells as header cells, and not none), and
\* the last position of a text among the header texts.
HeaderCellsOf(table) ==
    IF table.rows = <<>> THEN <<>> ELSE find_all(Head(table.rows), {"th", "td"})

KeptRowsOf(table) ==
    SelectSeq(DataRowsOf(table),
              LAMBDA tr : /\ find_all(tr, {"td"}) # <<>>
                          /\ Len(find_all(tr, {"td"})) = Len(HeaderCellsOf(table)))

LastPosition(headers, name) ==
    CHOOSE i \in 1..Len(headers) :
        headers[i] = name /\ \A j \in i + 1..Len(headers) : headers[j] # name

HasDuplicateHeader(table) ==
    \E i, j \in 1..Len(table.headers) : i # j /\ table.headers[i] = table.headers[j]

\* C27: the headers of a table extracted from markup are the texts of all
\* header cells, repeated texts included; every data row with as many cells
\* as header cells is kept, and under each header text it holds the
\* normalized text of the cell at the last position of that text.
C27_LastDuplicateHeaderWins ==
    (MarkupCall /\ result.returned # <<>>) =>
        /\ Len(result.returned[1].headers) = Len(HeaderCellsOf(TakenTable[1]))
        /\ \A i \in 1..Len(result.returned[1].headers) :
               result.returned[1].headers[i]
                   = Join(Strip(HeaderCellsOf(TakenTable[1])[i].text))
        /\ Len(result.returned[1].rows) = Len(KeptRowsOf(TakenTable[1]))
        /\ \A r \in 1..Len(result.returned[1].rows) :
               \A name \in Range(result.returned[1].headers) :
                   RowGet(result.returned[1].rows[r], name)
                       = _normalize_value(Strip(
                             find_all(KeptRowsOf(TakenTable[1])[r], {"td"})
                                 [LastPosition(result.returned[1].headers, name)].text))

\* Under the header cells Waits, Waits the row with the cells "db file" and
\* "1,234" is kept and holds 1234 under Waits.
C27_Witness ==
    /\ MarkupCall
    /\ result.returned # <<>>
    /\ HasDuplicateHeader(result.returned[1])
    /\ \E r \in 1..Len(result.returned[1].rows) :
           /\ find_all(KeptRowsOf(TakenTable[1])[r], {"td"})[1].text
                  = <<"d", "b", " ", "f", "i", "l", "e">>
           /\ result.returned[1].rows[r] = <<<<"Waits", IntV(1234)>>>>

(***************************************************************************)
(* Properties of the sections of a plain text.                             *)
(***************************************************************************)
\* A parsed plain text and its lines.
TextParsed == Parsed /\ base_parser.soup = <<>> /\ ~base_parser.file_path.markup

TextLines == base_parser._raw_content[1].lines

\* The text extractor of a stored table of this parser.
ExtractorOf(table_name) ==
    CHOOSE x \in TextExtractors : x.class = base_parser.class /\ x.name = table_name

\* The line of the section heading of an extractor, and the first empty
\* line after it (the line after the last when there is none).
HeadingLine(e) ==
    Least({i \in 1..Len(TextLines) :
               re_search(e.pattern, Join(Strip(TextLines[i])), e.ignorecase)})

FirstBlankAfter(i) ==
    Least({k \in i + 1..Len(TextLines) : TextLines[k] = <<>>} \cup {Len(TextLines) + 1})

\* C28: every row of a table extracted from plain text comes from a line
\* between the section heading and the first blank line after the heading.
C28_NoRowAfterFirstBlankLine ==
    TextParsed =>
        \A p \in base_parser.tables :
            \A r \in 1..Len(p[2].rows) :
                \E k \in HeadingLine(ExtractorOf(p[1])) + 1
                             ..FirstBlankAfter(HeadingLine(ExtractorOf(p[1]))) - 1 :
                    LineRow(ExtractorOf(p[1]).extractor, TextLines[k]) = <<p[2].rows[r]>>

\* The line after the heading is empty and the row of the line after it is
\* in the stored table.
C28_Witness ==
    /\ TextParsed
    /\ Len(TextLines) >= 3
    /\ TextLines[2] = <<>>
    /\ \E p \in base_parser.tables :
           /\ HeadingLine(ExtractorOf(p[1])) = 1
           /\ \E r \in 1..Len(p[2].rows) :
                  LineRow(ExtractorOf(p[1]).extractor, TextLines[3]) = <<p[2].rows[r]>>

(***************************************************************************)
(* Properties of the lines of the AWR load profile.                        *)
(***************************************************************************)
\* The row that a line gives when it is split on its first colon only: an
\* Optional row.
FirstColonRow(line) ==
    IF ":" \notin Range(line) \/ Len(split(split_on(line, ":", 1)[2])) < 2
    THEN <<>>
    ELSE << <<<<"Metric", StrV(Join(Strip(split_on(line, ":", 1)[1])))>>,
              <<"Per Second", _normalize_value(split(split_on(line, ":", 1)[2])[1])>>,
              <<"Per Transaction", _normalize_value(split(split_on(line, ":", 1)[2])[2])>>>> >>

RECURSIVE FirstColonRows(_, _)
FirstColonRows(section, i) ==
    IF i = 0 THEN <<>>
    ELSE FirstColonRows(section, i - 1) \o FirstColonRow(section[i])

LoadProfileSection == Section(TextLines, "Load Profile", FALSE)

\* C29: the rows of the load profile of a parsed AWR text are those of the
\* lines of its section, each split on its first colon only: the text
\* before it is the Metric, the first two words after it, normalized, are
\* Per Second and Per Transaction; a line without a colon or with fewer than
\* two words after it gives no row.
C29_SplitOnFirstColon ==
    (TextParsed /\ base_parser.class = "AWRParser" /\ LoadProfileSection # <<>>) =>
        IF get_table(base_parser, "load_profile") = <<>>
        THEN FirstColonRows(LoadProfileSection[1], Len(LoadProfileSection[1])) = <<>>
        ELSE get_table(base_parser, "load_profile")[1].rows
                 = FirstColonRows(LoadProfileSection[1], Len(LoadProfileSection[1]))

\* The line "Rate: 12:30 5" has two words after its first colon and gives
\* no row.
C29_Witness ==
    /\ TextParsed
    /\ base_parser.class = "AWRParser"
    /\ TextLines[2] = <<"R", "a", "t", "e", ":", " ", "1", "2", ":", "3", "0", " ", "5">>
    /\ FirstColonRow(TextLines[2]) # <<>>
    /\ get_table(base_parser, "load_profile") = <<>>

\* The line "DB Time: 1 2:3" gives a row whose Per Transaction is 2, the
\* text before its second colon.
C29_SecondColonWitness ==
    /\ TextParsed
    /\ base_parser.class = "AWRParser"
    /\ get_table(base_parser, "load_profile") # <<>>
    /\ get_table(base_parser, "load_profile")[1].rows
           = << <<<<"Metric", StrV("DB Time")>>, <<"Per Second", IntV(1)>>,
                  <<"Per Transaction", IntV(2)>>>> >>
    /\ FirstColonRow(TextLines[2])[1][3][2] = StrV("2:3")

(***************************************************************************)
(* Determinism of a call of compare_reports.                               *)
(***************************************************************************)
\* The results that calls on the reports, the selection and the
\* configuration of this state can give.
ResultsOfEqualCalls ==
    {compare_reports(base_parser, target_parser, selected_tables, table_order,
                     [t \in TableIds |-> CASE t = "load_profile" -> orders[1]
                                           [] t = "io_statistics" -> orders[2]
                                           [] OTHER -> orders[3]]) :
         table_order \in TableOrders(selected_tables),
         orders \in HeaderOrders("load_profile") \X HeaderOrders("io_statistics")
                        \X HeaderOrders("wait_events")}

\* C30: every call with the same reports, selection and configuration as
\* the call that gave the result of this state gives an equal result, the
\* order of the table comparisons and of their outcomes included.
C30_EqualCallsEqualResults ==
    result.status # "none" => ResultsOfEqualCalls = {result}

\* With no selection and two reports of one engine, a call with equal
\* arguments gives the same two table comparisons in the other order.
C30_Witness ==
    /\ Returned
    /\ selected_tables.is_none
    /\ result.comparison_type # "cross_platform"
    /\ Len(result.table_comparisons) = 2
    /\ \E other \in ResultsOfEqualCalls :
           /\ other.status = "returned"
           /\ other.table_comparisons
                  = <<result.table_comparisons[2], result.table_comparisons[1]>>

\* With a selection of one table and reports of two engines, a call with
\* equal arguments gives the same outcomes of the table in another order.
C30_CrossWitness ==
    /\ Returned
    /\ ~selected_tables.is_none
    /\ Len(selected_tables.list) = 1
    /\ result.comparison_type = "cross_platform"
    /\ \E other \in ResultsOfEqualCalls :
           /\ other.status = "returned"
           /\ other.table_comparisons # result.table_comparisons
           /\ Range(other.table_comparisons[1].comparisons)
                  = Range(result.table_comparisons[1].comparisons)

\* With a selection and two reports of one engine every call with equal
\* arguments gives the same result.
C30_SelectedSameEngineWitness ==
    /\ Returned
    /\ ~selected_tables.is_none
    /\ result.comparison_type # "cross_platform"
    /\ Len(result.table_comparisons) = 2
    /\ ResultsOfEqualCalls = {result}

====
